---- MODULE Spec2Model ----
(***************************************************************************)
(* Verification model of the LocalPulse API: the chat service of rag.py    *)
(* (intent extraction, database context, map directives, response          *)
(* generation, conversation history and stats cache), the connection       *)
(* manager of db.py and the connection handling of the HTTP handlers of    *)
(* api.py.                                                                 *)
(*                                                                         *)
(* Python strings that the code inspects character by character (queries,  *)
(* keywords, bank names) are sequences of one-character strings; strings   *)
(* that are only compared as a whole (intents, locations, modes) are TLA+  *)
(* strings.                                                                *)
(***************************************************************************)
EXTENDS Integers, Sequences, FiniteSets, TLC

VARIABLES
    query,                  \* extract_intent_and_entities: the argument
    extracted,              \* extract_intent_and_entities: the returned triple
    poi_density,            \* the poi_density table of localpulse.db (read-only)
    analysis,               \* what the last query method called on its own returned
    conversation_history,   \* ClaudeService.conversation_history
    db_cache,               \* ClaudeService._db_cache
    ret,                    \* what the last call on the service returned
    pc,                     \* where each request thread is
    own_connection,         \* whether a thread holds a connection it opened itself
    lock,                   \* DatabaseManager._lock: the thread that holds it
    connection,             \* DatabaseManager._connection
    connection_count,       \* DatabaseManager._connection_count
    claude_service,         \* api.claude_service: the service, or None without an API key
    response,               \* the last HTTP request and the response to it
    lists,                  \* the list objects the history attribute has been bound to
    history_id,             \* which of them self.conversation_history is bound to now
    frame,                  \* the locals of each thread's call on the service
    now,                    \* the clock: it ticks at every step of a call on the history
    cleared_at              \* when the history was last cleared, 0 when never

service_vars == <<conversation_history, db_cache, ret>>

thread_vars == <<pc, own_connection, lock, connection, connection_count>>

api_vars == <<claude_service, response>>

race_vars == <<lists, history_id, frame, now, cleared_at>>

vars == <<query, extracted, poi_density, analysis, conversation_history, db_cache, ret,
          pc, own_connection, lock, connection, connection_count,
          claude_service, response, lists, history_id, frame, now, cleared_at>>

(***************************************************************************)
(* Bounds of the model.                                                    *)
(***************************************************************************)
MaxWords == 3        \* words per generated query
MaxHistory == 2      \* entries the conversation history may reach
MaxBanks == 3        \* Bank rows of a district
MaxAtms == 2         \* ATM rows of a district
MaxPoi == 2          \* other rows of a district
MaxClock == 6        \* steps of calls on the history in the concurrent service
MaxCount == 2        \* value _connection_count may reach

(***************************************************************************)
(* str.lower() and str.upper() on the characters that occur.               *)
(***************************************************************************)
LowerOf ==
    ("A" :> "a") @@ ("B" :> "b") @@ ("C" :> "c") @@ ("D" :> "d") @@ ("E" :> "e") @@ ("F" :> "f") @@
    ("G" :> "g") @@ ("H" :> "h") @@ ("I" :> "i") @@ ("J" :> "j") @@ ("K" :> "k") @@ ("L" :> "l") @@
    ("M" :> "m") @@ ("N" :> "n") @@ ("O" :> "o") @@ ("P" :> "p") @@ ("Q" :> "q") @@ ("R" :> "r") @@
    ("S" :> "s") @@ ("T" :> "t") @@ ("U" :> "u") @@ ("V" :> "v") @@ ("W" :> "w") @@ ("X" :> "x") @@
    ("Y" :> "y") @@ ("Z" :> "z")

UpperOf ==
    ("a" :> "A") @@ ("b" :> "B") @@ ("c" :> "C") @@ ("d" :> "D") @@ ("e" :> "E") @@ ("f" :> "F") @@
    ("g" :> "G") @@ ("h" :> "H") @@ ("i" :> "I") @@ ("j" :> "J") @@ ("k" :> "K") @@ ("l" :> "L") @@
    ("m" :> "M") @@ ("n" :> "N") @@ ("o" :> "O") @@ ("p" :> "P") @@ ("q" :> "Q") @@ ("r" :> "R") @@
    ("s" :> "S") @@ ("t" :> "T") @@ ("u" :> "U") @@ ("v" :> "V") @@ ("w" :> "W") @@ ("x" :> "X") @@
    ("y" :> "Y") @@ ("z" :> "Z")

lower(s) == [i \in 1..Len(s) |-> IF s[i] \in DOMAIN LowerOf THEN LowerOf[s[i]] ELSE s[i]]

upper(s) == [i \in 1..Len(s) |-> IF s[i] \in DOMAIN UpperOf THEN UpperOf[s[i]] ELSE s[i]]

\* Python's `word in text` for two strings: word occurs as a substring.
contains(text, word) ==
    \E i \in 0..(Len(text) - Len(word)) : SubSeq(text, i + 1, i + Len(word)) = word

(***************************************************************************)
(* ClaudeService.__init__: the keyword table (a dict, iterated in          *)
(* insertion order), the bank tokens and the map centers.                  *)
(***************************************************************************)
INTENT_KEYWORDS == <<
    [intent_type |-> "greeting", keywords |-> <<
        <<"h","a","l","o">>,
        <<"h","a","i">>,
        <<"h","e","l","l","o">>,
        <<"a","p","a"," ","k","a","b","a","r">>,
        <<"s","e","l","a","m","a","t">> >>],
    [intent_type |-> "whitespots", keywords |-> <<
        <<"b","e","l","u","m"," ","t","e","r","j","a","n","g","k","a","u">>,
        <<"w","h","i","t","e","-","s","p","o","t">>,
        <<"w","h","i","t","e"," ","s","p","o","t">>,
        <<"l","o","k","a","s","i"," ","t","e","r","b","a","i","k">>,
        <<"e","k","s","p","a","n","s","i">> >>],
    [intent_type |-> "risk_assessment", keywords |-> <<
        <<"c","a","b","a","n","g"," ","b","e","r","i","s","i","k","o">>,
        <<"p","e","n","g","a","w","a","s","a","n">>,
        <<"b","e","r","i","s","i","k","o">> >>],
    [intent_type |-> "gdp_national", keywords |-> <<
        <<"k","o","n","d","i","s","i"," ","n","a","s","i","o","n","a","l">>,
        <<"e","k","o","n","o","m","i"," ","n","a","s","i","o","n","a","l">>,
        <<"g","d","p">>,
        <<"n","a","s","i","o","n","a","l">> >>],
    [intent_type |-> "business_analysis", keywords |-> <<
        <<"c","o","f","f","e","e"," ","s","h","o","p">>,
        <<"k","e","d","a","i"," ","k","o","p","i">>,
        <<"l","o","k","a","s","i"," ","s","t","r","a","t","e","g","i","s">>,
        <<"u","s","a","h","a">> >>],
    [intent_type |-> "bank_distribution", keywords |-> <<
        <<"s","e","b","a","r","a","n"," ","b","a","n","k">>,
        <<"l","o","k","a","s","i"," ","b","a","n","k">>,
        <<"c","a","b","a","n","g"," ","b","a","n","k">> >>] >>

BANK_ENTITIES == <<
    <<"b","n","i">>,
    <<"b","c","a">>,
    <<"b","r","i">>,
    <<"m","a","n","d","i","r","i">>,
    <<"b","s","i">>,
    <<"b","t","n">>,
    <<"c","i","m","b">>,
    <<"d","a","n","a","m","o","n">> >>

bali == <<"b","a","l","i">>

Bali == <<"B","a","l","i">>

(***************************************************************************)
(* extract_intent_and_entities(query)                                      *)
(***************************************************************************)
\* any(word in query_lower for word in keywords)
any_keyword(query_lower, keywords) ==
    \E k \in 1..Len(keywords) : contains(query_lower, keywords[k])

\* intent_loop with a bug: no break, so the last matching intent is taken.
RECURSIVE intent_loop_no_break(_, _)
intent_loop_no_break(query_lower, i) ==
    IF i > Len(INTENT_KEYWORDS) THEN "general_info"
    ELSE IF any_keyword(query_lower, INTENT_KEYWORDS[i].keywords)
            /\ intent_loop_no_break(query_lower, i + 1) = "general_info"
         THEN INTENT_KEYWORDS[i].intent_type
         ELSE intent_loop_no_break(query_lower, i + 1)

\* The for loop over INTENT_KEYWORDS.items() from position i on: the first
\* intent with a matching keyword is taken and the loop breaks; when the loop
\* runs out, the default assigned before it stays.
RECURSIVE intent_loop(_, _)
intent_loop(query_lower, i) ==
    IF i > Len(INTENT_KEYWORDS) THEN "general_info"
    ELSE IF any_keyword(query_lower, INTENT_KEYWORDS[i].keywords)
         THEN INTENT_KEYWORDS[i].intent_type
         ELSE intent_loop(query_lower, i + 1)

\* [bank.upper() for bank in self.BANK_ENTITIES if bank in query_lower]
RECURSIVE bank_entities(_, _)
bank_entities(query_lower, i) ==
    IF i > Len(BANK_ENTITIES) THEN <<>>
    ELSE (IF contains(query_lower, BANK_ENTITIES[i])
          THEN <<upper(BANK_ENTITIES[i])>> ELSE <<>>)
         \o bank_entities(query_lower, i + 1)

\* resolve_location with a bug: the national intent wins over the token.
resolve_location_intent_first(query_lower, intent) ==
    IF intent = "gdp_national" THEN "Indonesia" ELSE "Bali"

\* "Bali" if "bali" in query_lower else ("Indonesia" if intent == "gdp_national" else "Bali")
resolve_location(query_lower, intent) ==
    IF contains(query_lower, bali) THEN "Bali"
    ELSE IF intent = "gdp_national" THEN "Indonesia" ELSE "Bali"

extract_intent_and_entities(q) ==
    LET query_lower == lower(q)
        intent      == intent_loop(query_lower, 1)
        entities    == (IF contains(query_lower, bali) THEN <<Bali>> ELSE <<>>)
                       \o bank_entities(query_lower, 1)
    IN  [intent |-> intent, entities |-> entities,
         location |-> resolve_location(query_lower, intent)]

(***************************************************************************)
(* Queries: the four test queries of rag.py and every query of at most     *)
(* MaxWords words of a vocabulary that holds, in mixed case, single-word   *)
(* keywords, the halves of two-word keywords, a keyword inside a longer    *)
(* word, the location token and a bank token.                              *)
(***************************************************************************)
QueryHalo ==
    <<"H","a","l","o",","," ","a","p","a"," ","k","a","b","a","r","?">>
QueryWhitespots ==
    <<"L","o","k","a","s","i"," ","b","e","l","u","m"," ","t","e","r","j","a","n","g","k","a","u"," ","b","a","n","k"," ","d","i"," ","B","a","l","i","?">>
QueryRisk ==
    <<"C","a","b","a","n","g"," ","b","e","r","i","s","i","k","o"," ","d","i"," ","B","a","l","i","?">>
QueryCoffee ==
    <<"L","o","k","a","s","i"," ","s","t","r","a","t","e","g","i","s"," ","u","n","t","u","k"," ","c","o","f","f","e","e"," ","s","h","o","p"," ","d","i"," ","B","a","l","i","?">>

ExampleQueries == {QueryHalo, QueryWhitespots, QueryRisk, QueryCoffee}

Vocabulary == {
    <<"H","a","l","o">>,
    <<"a","p","a">>,
    <<"k","a","b","a","r">>,
    <<"l","o","k","a","s","i">>,
    <<"t","e","r","b","a","i","k">>,
    <<"b","a","n","k">>,
    <<"C","a","b","a","n","g">>,
    <<"b","e","r","i","s","i","k","o">>,
    <<"i","n","t","e","r","n","a","s","i","o","n","a","l">>,
    <<"u","s","a","h","a">>,
    <<"B","a","l","i">>,
    <<"B","N","I">> }

RECURSIVE Join(_)
Join(ws) ==
    IF Len(ws) = 0 THEN <<>>
    ELSE IF Len(ws) = 1 THEN ws[1]
    ELSE ws[1] \o <<" ">> \o Join(Tail(ws))

Queries ==
    ExampleQueries \cup
    { Join(ws) : ws \in UNION { [1..n -> Vocabulary] : n \in 0..MaxWords } }

NotExtracted == [intent |-> "none", entities |-> <<>>, location |-> "none"]

(***************************************************************************)
(* The poi_density table.  The queries of rag.py read only the category    *)
(* class (Bank, ATM, anything else), the province, the district and the    *)
(* intensity of a row, and the intensity only of rows that are neither     *)
(* Bank nor ATM; so the table is held grouped by province and district:    *)
(* the number of Bank rows, the number of ATM rows and the intensities of  *)
(* the other rows.  Intensities are in tenths (7 is 0.7), averages are     *)
(* exact fractions in tenths, and a threshold test such as avg > 0.7 is    *)
(* num > 7 * den.                                                          *)
(***************************************************************************)
Provinces == {"Bali", "Indonesia"}

Districts == {"Badung", "Gianyar"}

NoRows == [banks |-> 0, atms |-> 0, poi |-> <<>>]

NULL == [num |-> 0, den |-> 0]     \* SQL NULL in an average column

RECURSIVE GCD(_, _)
GCD(a, b) == IF b = 0 THEN a ELSE GCD(b, a % b)

RECURSIVE SumSeq(_)
SumSeq(xs) == IF xs = <<>> THEN 0 ELSE Head(xs) + SumSeq(Tail(xs))

RECURSIVE SumOver(_, _)
SumOver(f, S) ==
    IF S = {} THEN 0
    ELSE LET x == CHOOSE y \in S : TRUE IN f[x] + SumOver(f, S \ {x})

\* AVG(intensity) over a group of rows; a group exists only if it has a row.
AVG(xs) ==
    LET g == GCD(SumSeq(xs), Len(xs))
    IN  [num |-> SumSeq(xs) \div g, den |-> Len(xs) \div g]

\* Comparisons of an average with a threshold in tenths; a comparison with
\* NULL is NULL, which a WHEN or HAVING condition does not accept.
avg_gt(avg, tenths) == avg # NULL /\ avg.num > tenths * avg.den

avg_lt(avg, tenths) == avg # NULL /\ avg.num < tenths * avg.den

\* ORDER BY avg DESC NULLS LAST: row a must come before row b.
avg_before(a, b) ==
    \/ a # NULL /\ b = NULL
    \/ a # NULL /\ b # NULL /\ a.num * b.den > b.num * a.den

\* The rows of a province, by district (a province the table does not know
\* has no rows).
rows_of(table, province) ==
    IF province \in DOMAIN table THEN table[province]
    ELSE [d \in Districts |-> NoRows]

\* Every ordering of a set of rows that an ORDER BY allows, before being the
\* pairs <<a, b>> where a must come before b; rows that tie come in any
\* order.
orderings(rows, before) ==
    { s \in [1..Cardinality(rows) -> rows] :
        /\ \A i, j \in 1..Cardinality(rows) : i # j => s[i] # s[j]
        /\ \A i, j \in 1..Cardinality(rows) : i < j => <<s[j], s[i]>> \notin before }

(***************************************************************************)
(* get_basic_stats: the three counting queries.                            *)
(***************************************************************************)
count_stats(table, location) ==
    LET r == rows_of(table, location)
    IN  [total_banks |-> SumOver([d \in Districts |-> r[d].banks], Districts),
         total_atms  |-> SumOver([d \in Districts |-> r[d].atms], Districts),
         total_poi   |-> SumOver([d \in Districts |-> Len(r[d].poi)], Districts)]

(***************************************************************************)
(* get_district_analysis: the CASE expression and the query.               *)
(***************************************************************************)
\* area_classification with a bug: the first threshold is inclusive.
area_classification_inclusive(avg_poi_density, total_financial) ==
    IF ~avg_lt(avg_poi_density, 7) /\ avg_poi_density # NULL /\ total_financial < 2
        THEN "HIGH_PRIORITY_WHITESPACE"
    ELSE IF avg_gt(avg_poi_density, 5) /\ total_financial < 3
        THEN "MEDIUM_PRIORITY_WHITESPACE"
    ELSE IF avg_lt(avg_poi_density, 3) /\ total_financial > 2
        THEN "POTENTIAL_RISK_OVERSUPPLY"
    ELSE IF avg_lt(avg_poi_density, 2) /\ total_financial > 0
        THEN "HIGH_RISK_LOW_DEMAND"
    ELSE "BALANCED"

\* area_classification with a bug: the oversupply rule has the threshold of
\* the rule after it.
area_classification_low_threshold(avg_poi_density, total_financial) ==
    IF avg_gt(avg_poi_density, 7) /\ total_financial < 2
        THEN "HIGH_PRIORITY_WHITESPACE"
    ELSE IF avg_gt(avg_poi_density, 5) /\ total_financial < 3
        THEN "MEDIUM_PRIORITY_WHITESPACE"
    ELSE IF avg_lt(avg_poi_density, 2) /\ total_financial > 2
        THEN "POTENTIAL_RISK_OVERSUPPLY"
    ELSE IF avg_lt(avg_poi_density, 2) /\ total_financial > 0
        THEN "HIGH_RISK_LOW_DEMAND"
    ELSE "BALANCED"

area_classification(avg_poi_density, total_financial) ==
    IF avg_gt(avg_poi_density, 7) /\ total_financial < 2
        THEN "HIGH_PRIORITY_WHITESPACE"
    ELSE IF avg_gt(avg_poi_density, 5) /\ total_financial < 3
        THEN "MEDIUM_PRIORITY_WHITESPACE"
    ELSE IF avg_lt(avg_poi_density, 3) /\ total_financial > 2
        THEN "POTENTIAL_RISK_OVERSUPPLY"
    ELSE IF avg_lt(avg_poi_density, 2) /\ total_financial > 0
        THEN "HIGH_RISK_LOW_DEMAND"
    ELSE "BALANCED"

\* COALESCE(p.avg_poi_density, 0)
coalesce_zero(avg) == IF avg = NULL THEN [num |-> 0, den |-> 1] ELSE avg

\* Subquery p joined to subquery d: the average of a district of d, NULL
\* when p has no group for it (LEFT JOIN).
p_avg_poi_density(r, d) == IF r[d].poi = <<>> THEN NULL ELSE AVG(r[d].poi)

district_row(r, d) ==
    [district            |-> d,
     banks               |-> r[d].banks,
     atms                |-> r[d].atms,
     total_financial     |-> r[d].banks + r[d].atms,
     avg_poi_density     |-> coalesce_zero(p_avg_poi_density(r, d)),
     area_classification |-> area_classification(p_avg_poi_density(r, d),
                                                 r[d].banks + r[d].atms)]

\* The result lists the query can return: one row per district of the
\* province that has a Bank or ATM row, ordered by p.avg_poi_density.
district_analysis_query(table, location) ==
    LET r    == rows_of(table, location)
        rows == { district_row(r, d) : d \in { e \in Districts : r[e].banks + r[e].atms > 0 } }
        before == { p \in rows \X rows :
                      avg_before(p_avg_poi_density(r, p[1].district),
                                 p_avg_poi_density(r, p[2].district)) }
    IN  orderings(rows, before)

(***************************************************************************)
(* get_business_opportunities: the query.  The average times the row count is   *)
(* the sum of the intensities; in tenths it has one decimal, which         *)
(* ROUND(.., 2) keeps, so the score is the sum.                            *)
(***************************************************************************)
opportunity_row(r, d) ==
    [district                   |-> d,
     avg_activity_density       |-> AVG(r[d].poi),
     total_activity_points      |-> Len(r[d].poi),
     high_activity_spots        |-> Len(SelectSeq(r[d].poi, LAMBDA x : x > 7)),
     business_opportunity_score |-> SumSeq(r[d].poi)]

first_rows(s, n) == SubSeq(s, 1, IF Len(s) < n THEN Len(s) ELSE n)

business_opportunities_query(table, location) ==
    LET r    == rows_of(table, location)
        rows == { opportunity_row(r, d) :
                    d \in { e \in Districts : r[e].poi # <<>> /\ avg_gt(AVG(r[e].poi), 5) } }
        before == { p \in rows \X rows :
                      p[1].business_opportunity_score > p[2].business_opportunity_score }
    IN  { first_rows(s, 10) : s \in orderings(rows, before) }

(***************************************************************************)
(* Database access of the chat service.  A run of one method against the   *)
(* database is an input: whether the first duckdb.connect and its single   *)
(* retry succeed, and whether one of the method's queries raises.          *)
(***************************************************************************)
DbRuns ==
    { [connect |-> <<TRUE, TRUE>>, query_raises |-> FALSE],
      [connect |-> <<FALSE, TRUE>>, query_raises |-> FALSE],
      [connect |-> <<FALSE, FALSE>>, query_raises |-> FALSE],
      [connect |-> <<TRUE, TRUE>>, query_raises |-> TRUE] }

\* ClaudeService.get_db_connection: TRUE when it returns a connection,
\* FALSE when it raises.
get_db_connection(connect) == connect[1] \/ connect[2]

\* The try block of a query method runs to its end.
run_succeeds(run) == get_db_connection(run.connect) /\ ~run.query_raises

(***************************************************************************)
(* get_basic_stats(location).  A Python dict is a function on its keys.    *)
(* The method returns the dict object it holds in the cache, or a fresh    *)
(* dict when the database failed; `shared` tells which, because the caller *)
(* may assign into the dict it gets.  `raised` tells whether an exception  *)
(* leaves the method: the except clause covers the connection and every    *)
(* query, so none does.                                                    *)
(***************************************************************************)
cache_key(location) == <<"basic_stats_", location>>

zero_stats == [total_banks |-> 0, total_atms |-> 0, total_poi |-> 0]

\* get_basic_stats with a bug: the connection is opened before the try, so
\* a failed connection raises out of the method.
get_basic_stats_uncaught(cache, table, location, run) ==
    IF cache_key(location) \in DOMAIN cache
        THEN [raised |-> FALSE, stats |-> cache[cache_key(location)], shared |-> TRUE,
              cache |-> cache, queried |-> FALSE]
    ELSE IF run_succeeds(run)
        THEN [raised |-> FALSE, stats |-> count_stats(table, location), shared |-> TRUE,
              cache  |-> (cache_key(location) :> count_stats(table, location)) @@ cache,
              queried |-> TRUE]
    ELSE [raised |-> ~get_db_connection(run.connect), stats |-> zero_stats,
          shared |-> FALSE, cache |-> cache, queried |-> TRUE]

\* get_basic_stats with a bug: the fallback of a failed query is cached too.
get_basic_stats_caches_fallback(cache, table, location, run) ==
    IF cache_key(location) \in DOMAIN cache
        THEN [raised |-> FALSE, stats |-> cache[cache_key(location)], shared |-> TRUE,
              cache |-> cache, queried |-> FALSE]
    ELSE IF run_succeeds(run)
        THEN [raised |-> FALSE, stats |-> count_stats(table, location), shared |-> TRUE,
              cache  |-> (cache_key(location) :> count_stats(table, location)) @@ cache,
              queried |-> TRUE]
    ELSE [raised |-> FALSE, stats |-> zero_stats, shared |-> TRUE,
          cache |-> (cache_key(location) :> zero_stats) @@ cache, queried |-> TRUE]

get_basic_stats(cache, table, location, run) ==
    IF cache_key(location) \in DOMAIN cache
        THEN [raised |-> FALSE, stats |-> cache[cache_key(location)], shared |-> TRUE,
              cache |-> cache, queried |-> FALSE]
    ELSE IF run_succeeds(run)
        THEN [raised |-> FALSE, stats |-> count_stats(table, location), shared |-> TRUE,
              cache  |-> (cache_key(location) :> count_stats(table, location)) @@ cache,
              queried |-> TRUE]
    ELSE [raised |-> FALSE, stats |-> zero_stats, shared |-> FALSE,
          cache |-> cache, queried |-> TRUE]

\* get_district_analysis(location): the outcomes it can have (the list it
\* returns; no exception leaves it).
get_district_analysis(table, location, run) ==
    IF run_succeeds(run)
    THEN { [raised |-> FALSE, rows |-> r] : r \in district_analysis_query(table, location) }
    ELSE { [raised |-> FALSE, rows |-> <<>>] }

\* get_business_opportunities(location): the outcomes it can have.
get_business_opportunities(table, location, run) ==
    IF run_succeeds(run)
    THEN { [raised |-> FALSE, rows |-> r] : r \in business_opportunities_query(table, location) }
    ELSE { [raised |-> FALSE, rows |-> <<>>] }

recommended_business_areas == <<
    [name |-> "Seminyak Business District", coordinates |-> <<-86872, 1151748>>,
     district |-> "Badung", business_potential |-> "HIGH"],
    [name |-> "Ubud Cultural Center", coordinates |-> <<-85088, 1152623>>,
     district |-> "Gianyar", business_potential |-> "HIGH"],
    [name |-> "Canggu Beach Area", coordinates |-> <<-86482, 1151374>>,
     district |-> "Badung", business_potential |-> "HIGH"] >>

\* context[key] = value on a dict
dict_set(dict, key, value) == (key :> value) @@ [k \in DOMAIN dict \ {key} |-> dict[k]]

(***************************************************************************)
(* get_database_context(intent, location).  `extra` is the list returned   *)
(* by the intent's own query.  The assignments go into the dict that       *)
(* get_basic_stats returned; when that is the cached object, the cache     *)
(* entry changes with it.                                                  *)
(***************************************************************************)
\* The dict after the assignments of the intent's branch.
intent_context(intent, location, stats, rows) ==
    IF intent \in {"whitespots", "risk_assessment"}
        THEN dict_set(stats, "district_analysis", rows)
    ELSE IF intent = "business_analysis"
        THEN IF location = "Bali"
             THEN dict_set(dict_set(stats, "business_opportunities", rows),
                           "recommended_business_areas", recommended_business_areas)
             ELSE dict_set(stats, "business_opportunities", rows)
    ELSE stats

\* What the method leaves behind, given the outcome `basic` of its call of
\* get_basic_stats and the dict `context` it returns.
assemble_context(intent, location, basic, extra) ==
    IF basic.raised \/ extra.raised
    THEN [raised |-> TRUE, context |-> basic.stats, cache |-> basic.cache]
    ELSE [raised  |-> FALSE,
          context |-> intent_context(intent, location, basic.stats, extra.rows),
          cache   |-> IF basic.shared
                      THEN [basic.cache EXCEPT ![cache_key(location)] =
                                intent_context(intent, location, basic.stats, extra.rows)]
                      ELSE basic.cache]

\* if not location or location == "None": location = "Bali"
context_location(location) ==
    IF location = "" \/ location = "None" THEN "Bali" ELSE location

get_database_context(cache, table, intent, location, run, extra) ==
    assemble_context(intent, context_location(location),
                     get_basic_stats(cache, table, context_location(location), run),
                     extra)

\* The outcomes the intent's own query of get_database_context can have.
NoExtra == [raised |-> FALSE, rows |-> <<>>]

context_extras(table, intent, location, run) ==
    IF intent \in {"whitespots", "risk_assessment"}
        THEN get_district_analysis(table, location, run)
    ELSE IF intent = "business_analysis"
        THEN get_business_opportunities(table, location, run)
    ELSE { NoExtra }

(***************************************************************************)
(* generate_map_directive(intent, location).  Coordinates are in units of  *)
(* 0.0001 degree.  Every flag of every filters dict is True, so a filters  *)
(* dict is the set of its keys.                                            *)
(***************************************************************************)
MAP_CENTERS ==
    ("Bali" :> <<-86705, 1152126>>) @@ ("Indonesia" :> <<-25000, 1180000>>)

\* MAP_CENTERS.get(location, ..) with Indonesia as the default.
location_center_default_indonesia(location) ==
    IF location \in DOMAIN MAP_CENTERS THEN MAP_CENTERS[location] ELSE MAP_CENTERS["Indonesia"]

\* MAP_CENTERS.get(location, MAP_CENTERS['Bali'])
location_center(location) ==
    IF location \in DOMAIN MAP_CENTERS THEN MAP_CENTERS[location] ELSE MAP_CENTERS["Bali"]

\* The business_analysis entry with the zoom of the other entries.
business_analysis_config_location_zoom(center, zoom) ==
    [mode |-> "business_analysis",
     filters |-> {"show_heatmap", "show_poi_density", "show_financial",
                  "show_recommended_areas"},
     center |-> center, zoom |-> zoom, highlights |-> "None"]

business_analysis_config(center, zoom) ==
    [mode |-> "business_analysis",
     filters |-> {"show_heatmap", "show_poi_density", "show_financial",
                  "show_recommended_areas"},
     center |-> center, zoom |-> 11, highlights |-> "None"]

\* directive_config, a dict of five entries.
directive_config(center, zoom) ==
    [gdp_national |->
        [mode |-> "gdp", filters |-> {}, center |-> MAP_CENTERS["Indonesia"],
         zoom |-> 5, highlights |-> "None"],
     whitespots |->
        [mode |-> "whitespots", filters |-> {"show_heatmap", "show_financial"},
         center |-> center, zoom |-> zoom, highlights |-> "None"],
     risk_assessment |->
        [mode |-> "risk",
         filters |-> {"show_heatmap", "show_financial", "highlight_risk"},
         center |-> center, zoom |-> zoom, highlights |-> "None"],
     bank_distribution |->
        [mode |-> "financial", filters |-> {"show_financial", "group_by_category"},
         center |-> center, zoom |-> zoom, highlights |-> "None"],
     business_analysis |-> business_analysis_config(center, zoom)]

\* directive_config.get(intent, ..) with the whitespots entry as the default.
config_get_default_whitespots(config, intent) ==
    IF intent \in DOMAIN config THEN config[intent] ELSE config["whitespots"]

\* directive_config.get(intent, directive_config["gdp_national"])
config_get(config, intent) ==
    IF intent \in DOMAIN config THEN config[intent] ELSE config["gdp_national"]

generate_map_directive(intent, location) ==
    config_get(directive_config(location_center(location),
                                IF location = "Bali" THEN 10 ELSE 5),
               intent)

(***************************************************************************)
(* create_system_prompt(intent, location, db_context): one of three fixed  *)
(* strings, or the template with the intent, the location and the          *)
(* serialized context (the date is left out).                              *)
(***************************************************************************)
create_system_prompt(intent, location, db_context) ==
    IF intent \in {"greeting", "general_info", "gdp_national"}
    THEN [simple |-> TRUE, intent |-> intent]
    ELSE [simple |-> FALSE, intent |-> intent, location |-> location,
          db_context |-> db_context]

(***************************************************************************)
(* The language model is an input of generate_response: the call returns a *)
(* message with a text block, or it raises, or it returns a message whose  *)
(* content list is empty, so that response.content[0] raises inside the    *)
(* same try block before anything is appended to the history.              *)
(***************************************************************************)
Responses == {"generated text"}

LlmOutcomes ==
    { [kind |-> "ok", text |-> t] : t \in Responses }
    \cup { [kind |-> "raises", text |-> "overloaded_error"],
           [kind |-> "no_content", text |-> "list index out of range"] }

\* dict.get(key, default)
dict_get(dict, key, default) == IF key \in DOMAIN dict THEN dict[key] ELSE default

QueryGdp ==
    <<"G","D","P">>

QueryBankDistribution ==
    <<"l","o","k","a","s","i"," ","b","a","n","k">>

ServiceQueries ==
    {QueryHalo, QueryWhitespots, QueryRisk, QueryCoffee, QueryGdp, QueryBankDistribution}

\* extract_intent_and_entities on the queries the service is called with,
\* evaluated once per query.
extract_memo == [q \in ServiceQueries |-> extract_intent_and_entities(q)]

(***************************************************************************)
(* generate_response(query): the value returned and the service state      *)
(* after the call.  A history entry is the query and the response text     *)
(* (its timestamp is left out).  The fallback text is held by its parts.   *)
(***************************************************************************)
needs_deep_analysis(intent) ==
    intent \in {"whitespots", "risk_assessment", "business_analysis", "bank_distribution"}

\* The request sent to the language model.
llm_request(ex, db_context) ==
    [intent |-> ex.intent, entities |-> ex.entities, location |-> ex.location,
     db_context |-> db_context,
     system_prompt |-> create_system_prompt(ex.intent, ex.location, db_context),
     max_tokens |-> IF needs_deep_analysis(ex.intent) THEN 800 ELSE 200]

\* An exception of the context step leaves generate_response before the
\* language model is called.
propagate(history, ex, map_directive, db) ==
    [raised |-> TRUE, llm_called |-> FALSE, text |-> "", fallback |-> FALSE,
     directive |-> map_directive, history |-> history, cache |-> db.cache,
     call |-> llm_request(ex, db.context)]

\* try_block with a bug: the entry is put at the front of the list.
try_block_prepends(history, q, ex, map_directive, db, llm) ==
    [raised |-> FALSE, llm_called |-> TRUE, text |-> llm.text, fallback |-> FALSE,
     directive |-> map_directive,
     history |-> <<[query |-> q, response |-> llm.text]>> \o history,
     cache |-> db.cache, call |-> llm_request(ex, db.context)]

\* The try block when nothing in it raises: the entry is appended, the text
\* and the directive are returned.
try_block(history, q, ex, map_directive, db, llm) ==
    [raised |-> FALSE, llm_called |-> TRUE, text |-> llm.text, fallback |-> FALSE,
     directive |-> map_directive,
     history |-> Append(history, [query |-> q, response |-> llm.text]),
     cache |-> db.cache, call |-> llm_request(ex, db.context)]

\* except_clause with a bug: the clause raises again instead of returning.
except_clause_reraises(history, ex, map_directive, db, llm) ==
    [raised |-> TRUE, llm_called |-> TRUE, text |-> "", fallback |-> FALSE,
     directive |-> map_directive, history |-> history, cache |-> db.cache,
     call |-> llm_request(ex, db.context)]

\* The except clause: the fallback text and the directive are returned.
except_clause(history, ex, map_directive, db, llm) ==
    [raised |-> FALSE, llm_called |-> TRUE,
     text |-> [location    |-> ex.location,
               total_banks |-> dict_get(db.context, "total_banks", 0),
               total_atms  |-> dict_get(db.context, "total_atms", 0),
               total_poi   |-> dict_get(db.context, "total_poi", 0),
               error       |-> llm.text],
     fallback |-> TRUE,
     directive |-> map_directive, history |-> history, cache |-> db.cache,
     call |-> llm_request(ex, db.context)]

\* The call of the language model with its try and except, given the
\* extraction `ex`, the directive and the outcome `db` of the context step.
call_llm(history, q, ex, map_directive, db, llm) ==
    IF db.raised THEN propagate(history, ex, map_directive, db)
    ELSE IF llm.kind = "ok" THEN try_block(history, q, ex, map_directive, db, llm)
    ELSE except_clause(history, ex, map_directive, db, llm)

\* get_basic_stats as the context step of a shallow intent.
stats_as_context(basic) ==
    [raised |-> basic.raised, context |-> basic.stats, cache |-> basic.cache]

\* The context step: get_database_context for a deep intent, get_basic_stats
\* otherwise.
context_step(cache, table, ex, run, extra) ==
    IF needs_deep_analysis(ex.intent)
    THEN get_database_context(cache, table, ex.intent, ex.location, run, extra)
    ELSE stats_as_context(get_basic_stats(cache, table, ex.location, run))

generate_response(history, cache, table, q, run, extra, llm) ==
    call_llm(history, q, extract_memo[q],
             generate_map_directive(extract_memo[q].intent, extract_memo[q].location),
             context_step(cache, table, extract_memo[q], run, extra),
             llm)

\* clear_conversation_history(): the service state after the call.
clear_conversation_history(history, cache) == [history |-> <<>>, cache |-> <<>>]

(***************************************************************************)
(* The chat service, one call at a time.                                   *)
(***************************************************************************)
Locations == {"Bali", "Indonesia"}

\* The table the service runs on: both provinces have rows, one district has
\* rows of every kind, one has no row that is neither Bank nor ATM.
TableB ==
    [p \in Provinces |->
        IF p = "Bali"
        THEN [d \in Districts |->
                IF d = "Badung" THEN [banks |-> 0, atms |-> 1, poi |-> <<7, 9>>]
                ELSE [banks |-> 1, atms |-> 0, poi |-> <<1>>]]
        ELSE [d \in Districts |->
                IF d = "Badung" THEN [banks |-> 1, atms |-> 0, poi |-> <<>>]
                ELSE NoRows]]

NotCalled == [op |-> "none"]

Threads == {"t1", "t2", "t3"}

\* No request is being served; DatabaseManager.__init__.
ThreadsIdle ==
    /\ pc = [t \in Threads |-> "idle"]
    /\ own_connection = [t \in Threads |-> FALSE]
    /\ lock = "free"
    /\ connection = "None"
    /\ connection_count = 0

NoRequest == [endpoint |-> "none"]

\* api.py 12-17 with CLAUDE_API_KEY set; no request has been answered.
ServiceReady ==
    /\ claude_service = "ClaudeService"
    /\ response = NoRequest

NoCall == [op |-> "none"]

\* ClaudeService.__init__: the history attribute is bound to a new empty
\* list; no call is running.
NoCalls ==
    /\ lists = << <<>> >>
    /\ history_id = 1
    /\ frame = [t \in Threads |-> NoCall]
    /\ now = 1
    /\ cleared_at = 0

Init ==
    /\ query = <<>>
    /\ extracted = NotExtracted
    /\ poi_density = TableB
    /\ analysis = NotCalled
    /\ conversation_history = <<>>
    /\ db_cache = <<>>
    /\ ret = NotCalled
    /\ ThreadsIdle
    /\ ServiceReady
    /\ NoCalls

\* The runs of the database that a call draws from: a call that does not
\* reach the database (a cache hit, an intent without a query of its own)
\* has the one run in which nothing fails.
OkRun == [connect |-> <<TRUE, TRUE>>, query_raises |-> FALSE]

has_own_query(intent) == intent \in {"whitespots", "risk_assessment", "business_analysis"}

\* The service after a call of generate_response that returned `r`.
Responded(q, run, run2, llm, r) ==
    /\ conversation_history' = r.history
    /\ db_cache' = r.cache
    /\ ret' = [op |-> "generate_response", query |-> q,
               stats_run_ok |-> run_succeeds(run), own_run_ok |-> run_succeeds(run2),
               llm |-> llm.kind, llm_text |-> llm.text, raised |-> r.raised, llm_called |-> r.llm_called,
               text |-> r.text, fallback |-> r.fallback,
               directive |-> r.directive, call |-> r.call]
    /\ UNCHANGED <<query, extracted, poi_density, analysis, thread_vars, api_vars, race_vars>>

GenerateResponse ==
    \E q \in ServiceQueries, llm \in LlmOutcomes :
    \E run  \in (IF cache_key(extract_memo[q].location) \in DOMAIN db_cache
                 THEN {OkRun} ELSE DbRuns),
       run2 \in (IF has_own_query(extract_memo[q].intent) THEN DbRuns ELSE {OkRun}) :
    \E extra \in context_extras(poi_density, extract_memo[q].intent,
                                extract_memo[q].location, run2) :
        /\ llm.kind = "ok" => Len(conversation_history) < MaxHistory
        /\ Responded(q, run, run2, llm,
                     generate_response(conversation_history, db_cache, poi_density,
                                       q, run, extra, llm))

\* The service after a call of get_basic_stats that returned `r`.
StatsReturned(location, run, r) ==
    /\ db_cache' = r.cache
    /\ ret' = [op |-> "get_basic_stats", location |-> location,
               run_ok |-> run_succeeds(run), raised |-> r.raised,
               stats |-> r.stats, queried |-> r.queried]
    /\ UNCHANGED <<query, extracted, poi_density, analysis, conversation_history, thread_vars, api_vars, race_vars>>

GetBasicStats ==
    \E location \in Locations :
    \E run \in (IF cache_key(location) \in DOMAIN db_cache THEN {OkRun} ELSE DbRuns) :
        StatsReturned(location, run, get_basic_stats(db_cache, poi_density, location, run))

GetConversationHistory ==
    /\ ret' = [op |-> "get_conversation_history", history |-> conversation_history]
    /\ UNCHANGED <<query, extracted, poi_density, analysis, conversation_history, db_cache,
                 thread_vars, api_vars, race_vars>>

ClearConversationHistory ==
    /\ conversation_history' = clear_conversation_history(conversation_history, db_cache).history
    /\ db_cache' = clear_conversation_history(conversation_history, db_cache).cache
    /\ ret' = [op |-> "clear_conversation_history"]
    /\ UNCHANGED <<query, extracted, poi_density, analysis, thread_vars, api_vars, race_vars>>

Next ==
    \/ GenerateResponse
    \/ GetBasicStats
    \/ GetConversationHistory
    \/ ClearConversationHistory

Spec == Init /\ [][Next]_vars

(***************************************************************************)
(* The chat service called by several threads at once.  Flask serves each  *)
(* request on a thread of its own and the service takes no lock, so the    *)
(* steps of generate_response and clear_conversation_history interleave.   *)
(* The statement self.conversation_history.append({...}) first loads the   *)
(* attribute, then builds the entry, then appends to the list it loaded.   *)
(***************************************************************************)
RaceQueries == {QueryHalo, QueryBankDistribution}

\* The threads that serve requests at the same time.
RaceThreads == {"t1", "t2"}

\* The list object a loaded reference is appended to with a bug: the
\* attribute is read again at the time of the append.
append_target_reloaded(ref, bound) == bound

\* The list object the append acts on: the one loaded before the entry was
\* built, whatever the attribute is bound to by now.
append_target(ref, bound) == ref

history_entry(timestamp, q, text) ==
    [timestamp |-> timestamp, query |-> q, response |-> text]

InitRace ==
    /\ query = <<>>
    /\ extracted = NotExtracted
    /\ poi_density = TableB
    /\ analysis = NotCalled
    /\ conversation_history = <<>>
    /\ db_cache = <<>>
    /\ ret = NotCalled
    /\ ThreadsIdle
    /\ ServiceReady
    /\ NoCalls

RaceUnchanged ==
    UNCHANGED <<query, extracted, poi_density, analysis,
                own_connection, lock, connection, connection_count, api_vars>>

\* generate_response up to the call of the language model: the context
\* step reads and fills the cache.
GenerateCall(t) ==
    /\ pc[t] = "idle"
    /\ \E q \in RaceQueries :
       \E run \in (IF cache_key(extract_memo[q].location) \in DOMAIN db_cache
                   THEN {OkRun} ELSE DbRuns) :
       LET db == context_step(db_cache, poi_density, extract_memo[q], run, NoExtra)
       IN  /\ db_cache' = db.cache
           /\ pc' = [pc EXCEPT ![t] = IF db.raised THEN "idle" ELSE "gen_llm"]
           /\ frame' = [frame EXCEPT ![t] =
                  [op |-> "generate_response", query |-> q,
                   state |-> IF db.raised THEN "raised" ELSE "running",
                   ref |-> 0, loaded_at |-> 0, finished_at |-> 0,
                   entry |-> history_entry(0, q, "")]]
    /\ UNCHANGED <<conversation_history, ret, lists, history_id, now, cleared_at>>
    /\ RaceUnchanged

\* The language model failed: the except clause returns the fallback and
\* the history is not touched.
GenerateFallback(t) ==
    /\ pc[t] = "gen_llm"
    /\ now < MaxClock
    /\ \E llm \in LlmOutcomes :
        /\ llm.kind # "ok"
        /\ frame' = [frame EXCEPT ![t].state = "fallback", ![t].finished_at = now]
    /\ pc' = [pc EXCEPT ![t] = "idle"]
    /\ now' = now + 1
    /\ UNCHANGED <<conversation_history, db_cache, ret, lists, history_id, cleared_at>>
    /\ RaceUnchanged

\* The language model answered; self.conversation_history is loaded.
GenerateLoad(t) ==
    /\ pc[t] = "gen_llm"
    /\ now < MaxClock
    /\ \E llm \in LlmOutcomes :
        /\ llm.kind = "ok"
        /\ frame' = [frame EXCEPT ![t].ref = history_id, ![t].loaded_at = now,
                                  ![t].entry = history_entry(0, frame[t].query, llm.text)]
    /\ pc' = [pc EXCEPT ![t] = "gen_loaded"]
    /\ now' = now + 1
    /\ UNCHANGED <<conversation_history, db_cache, ret, lists, history_id, cleared_at>>
    /\ RaceUnchanged

\* The entry is built with the time of day and appended to the loaded
\* list; the call returns.
GenerateAppend(t) ==
    /\ pc[t] = "gen_loaded"
    /\ now < MaxClock
    /\ LET target == append_target(frame[t].ref, history_id)
           entry  == history_entry(now, frame[t].query, frame[t].entry.response)
       IN  /\ lists' = [lists EXCEPT ![target] = Append(@, entry)]
           /\ frame' = [frame EXCEPT ![t].state = "appended", ![t].finished_at = now,
                                     ![t].entry = entry]
    /\ conversation_history' = lists'[history_id]
    /\ pc' = [pc EXCEPT ![t] = "idle"]
    /\ now' = now + 1
    /\ UNCHANGED <<db_cache, ret, history_id, cleared_at>>
    /\ RaceUnchanged

\* clear_conversation_history(): the attribute is bound to a new empty
\* list, the list it was bound to is left as it is.
ClearHistory(t) ==
    /\ pc[t] = "idle"
    /\ now < MaxClock
    /\ lists' = Append(lists, clear_conversation_history(lists[history_id], db_cache).history)
    /\ history_id' = Len(lists) + 1
    /\ conversation_history' = lists'[history_id']
    /\ db_cache' = clear_conversation_history(lists[history_id], db_cache).cache
    /\ cleared_at' = now
    /\ now' = now + 1
    /\ frame' = [frame EXCEPT ![t] = [op |-> "clear_conversation_history", finished_at |-> now]]
    /\ ret' = [op |-> "clear_conversation_history"]
    /\ UNCHANGED pc
    /\ RaceUnchanged

\* get_conversation_history(): the list the attribute is bound to.
GetHistory(t) ==
    /\ pc[t] = "idle"
    /\ ret' = [op |-> "get_conversation_history", history |-> lists[history_id]]
    /\ UNCHANGED <<conversation_history, db_cache, pc, race_vars>>
    /\ RaceUnchanged

NextRace ==
    \/ \E t \in RaceThreads : GenerateCall(t)
    \/ \E t \in RaceThreads : GenerateFallback(t)
    \/ \E t \in RaceThreads : GenerateLoad(t)
    \/ \E t \in RaceThreads : GenerateAppend(t)
    \/ \E t \in RaceThreads : ClearHistory(t)
    \/ \E t \in RaceThreads : GetHistory(t)

SpecRace == InitRace /\ [][NextRace]_vars

(***************************************************************************)
(* extract_intent_and_entities on its own: a query is drawn, the method is *)
(* applied to it.                                                          *)
(***************************************************************************)
InitExtract ==
    /\ query \in Queries
    /\ extracted = NotExtracted
    /\ poi_density = TableB
    /\ analysis = NotCalled
    /\ conversation_history = <<>>
    /\ db_cache = <<>>
    /\ ret = NotCalled
    /\ ThreadsIdle
    /\ ServiceReady
    /\ NoCalls

Extract ==
    /\ extracted = NotExtracted
    /\ extracted' = extract_intent_and_entities(query)
    /\ UNCHANGED <<query, poi_density, analysis, service_vars, thread_vars, api_vars, race_vars>>

NextExtract == Extract

SpecExtract == InitExtract /\ [][NextExtract]_vars

(***************************************************************************)
(* generate_map_directive: called with any intent and location, and called *)
(* as generate_response calls it, with the intent and the location         *)
(* extracted from a query; the stats cache fills in between.               *)
(***************************************************************************)
DirectiveQueries == ServiceQueries \cup { Join(<<w>>) : w \in Vocabulary }

DirectiveIntents ==
    { INTENT_KEYWORDS[i].intent_type : i \in 1..Len(INTENT_KEYWORDS) }
    \cup { "general_info", "unknown" }

DirectiveLocations == Locations \cup { "Jawa", "None" }

InitDirective ==
    /\ query \in DirectiveQueries
    /\ extracted = NotExtracted
    /\ poi_density = TableB
    /\ analysis = NotCalled
    /\ conversation_history = <<>>
    /\ db_cache = <<>>
    /\ ret = NotCalled
    /\ ThreadsIdle
    /\ ServiceReady
    /\ NoCalls

DirectiveReturned(intent, location, from_query) ==
    /\ ret' = [op |-> "generate_map_directive", intent |-> intent, location |-> location,
               from_query |-> from_query,
               directive |-> generate_map_directive(intent, location)]
    /\ UNCHANGED <<query, extracted, poi_density, analysis, conversation_history, db_cache,
                   thread_vars, api_vars, race_vars>>

GenerateMapDirective ==
    \E intent \in DirectiveIntents, location \in DirectiveLocations :
        DirectiveReturned(intent, location, FALSE)

\* generate_response, lines 313-316.
DirectiveOfQuery ==
    /\ extracted # NotExtracted
    /\ DirectiveReturned(extracted.intent, extracted.location, TRUE)

NextDirective ==
    \/ Extract
    \/ GenerateMapDirective
    \/ DirectiveOfQuery
    \/ GetBasicStats

SpecDirective == InitDirective /\ [][NextDirective]_vars

(***************************************************************************)
(* The query methods on their own: a table is drawn, get_district_analysis *)
(* and get_business_opportunities are called on it.  One district takes    *)
(* every content within the bounds, the other one of a few contents: no    *)
(* row, Bank and ATM rows only, other rows only, both.                     *)
(***************************************************************************)
IntensityLevels == {1, 2, 3, 4, 5, 7, 8}

\* The intensities of the other rows of a district, as a multiset.
PoiLists ==
    { xs \in UNION { [1..n -> IntensityLevels] : n \in 0..MaxPoi } :
        \A i \in 1..(Len(xs) - 1) : xs[i] <= xs[i + 1] }

DistrictContents ==
    [banks : 0..MaxBanks, atms : 0..MaxAtms, poi : PoiLists]

FewContents ==
    { NoRows,
      [banks |-> 1, atms |-> 0, poi |-> <<>>],
      [banks |-> 2, atms |-> 1, poi |-> <<>>],
      [banks |-> 0, atms |-> 0, poi |-> <<8>>],
      [banks |-> 1, atms |-> 0, poi |-> <<5>>] }

AnalysisTables ==
    { [p \in Provinces |->
        IF p = "Bali"
        THEN [d \in Districts |-> IF d = "Badung" THEN badung ELSE gianyar]
        ELSE [d \in Districts |-> NoRows]] :
      badung \in DistrictContents, gianyar \in FewContents }

InitAnalysis ==
    /\ query = <<>>
    /\ extracted = NotExtracted
    /\ poi_density \in AnalysisTables
    /\ analysis = NotCalled
    /\ conversation_history = <<>>
    /\ db_cache = <<>>
    /\ ret = NotCalled
    /\ ThreadsIdle
    /\ ServiceReady
    /\ NoCalls

GetDistrictAnalysis ==
    \E location \in Locations, run \in DbRuns :
    \E r \in get_district_analysis(poi_density, location, run) :
        /\ analysis' = [op |-> "get_district_analysis", location |-> location,
                        run_ok |-> run_succeeds(run), raised |-> r.raised, rows |-> r.rows]
        /\ UNCHANGED <<query, extracted, poi_density, service_vars, thread_vars, api_vars, race_vars>>

GetBusinessOpportunities ==
    \E location \in Locations, run \in DbRuns :
    \E r \in get_business_opportunities(poi_density, location, run) :
        /\ analysis' = [op |-> "get_business_opportunities", location |-> location,
                        run_ok |-> run_succeeds(run), raised |-> r.raised, rows |-> r.rows]
        /\ UNCHANGED <<query, extracted, poi_density, service_vars, thread_vars, api_vars, race_vars>>

NextAnalysis ==
    \/ GetDistrictAnalysis
    \/ GetBusinessOpportunities

SpecAnalysis == InitAnalysis /\ [][NextAnalysis]_vars

(***************************************************************************)
(* Request threads.  The server runs each request on a thread of its own.  *)
(* A handler of api.py opens a connection with get_db_connection(), runs   *)
(* its queries and closes it; a query method of the chat service does the  *)
(* same with ClaudeService.get_db_connection(), which retries once.  A     *)
(* caller of DatabaseManager.execute_query or execute_single goes through  *)
(* get_connection(), and close_connection() can be called on its own.      *)
(* A step is what a thread does between two points where the others can    *)
(* see or stop it.                                                         *)
(***************************************************************************)
\* threading.Lock: acquire goes on when no thread holds the lock.
can_acquire_unlocked(l) == TRUE

can_acquire(l) == l = "free"

\* api.get_db_connection(): duckdb.connect succeeds (when it raises, the
\* handler answers 500 and nothing is held).
HttpConnect(t) ==
    /\ pc[t] = "idle"
    /\ pc' = [pc EXCEPT ![t] = "http_connected"]
    /\ own_connection' = [own_connection EXCEPT ![t] = TRUE]
    /\ UNCHANGED <<lock, connection, connection_count>>
    /\ UNCHANGED <<query, extracted, poi_density, analysis, service_vars, api_vars, race_vars>>

\* The queries of the handler: they return, or one raises and the handler
\* answers 500, dropping the connection.
HttpQuery(t) ==
    /\ pc[t] = "http_connected"
    /\ \E ok \in BOOLEAN :
        IF ok
        THEN /\ pc' = [pc EXCEPT ![t] = "http_queried"]
             /\ UNCHANGED own_connection
        ELSE /\ pc' = [pc EXCEPT ![t] = "idle"]
             /\ own_connection' = [own_connection EXCEPT ![t] = FALSE]
    /\ UNCHANGED <<lock, connection, connection_count>>
    /\ UNCHANGED <<query, extracted, poi_density, analysis, service_vars, api_vars, race_vars>>

\* conn.close() and the answer.
HttpClose(t) ==
    /\ pc[t] = "http_queried"
    /\ pc' = [pc EXCEPT ![t] = "idle"]
    /\ own_connection' = [own_connection EXCEPT ![t] = FALSE]
    /\ UNCHANGED <<lock, connection, connection_count>>
    /\ UNCHANGED <<query, extracted, poi_density, analysis, service_vars, api_vars, race_vars>>

\* ClaudeService.get_db_connection(): the first duckdb.connect.
ChatConnect(t) ==
    /\ pc[t] = "idle"
    /\ \E ok \in BOOLEAN :
        IF ok
        THEN /\ pc' = [pc EXCEPT ![t] = "chat_connected"]
             /\ own_connection' = [own_connection EXCEPT ![t] = TRUE]
        ELSE /\ pc' = [pc EXCEPT ![t] = "chat_retry"]
             /\ UNCHANGED own_connection
    /\ UNCHANGED <<lock, connection, connection_count>>
    /\ UNCHANGED <<query, extracted, poi_density, analysis, service_vars, api_vars, race_vars>>

\* The single retry; when it raises too, the query method returns its
\* fallback.
ChatRetry(t) ==
    /\ pc[t] = "chat_retry"
    /\ \E ok \in BOOLEAN :
        IF ok
        THEN /\ pc' = [pc EXCEPT ![t] = "chat_connected"]
             /\ own_connection' = [own_connection EXCEPT ![t] = TRUE]
        ELSE /\ pc' = [pc EXCEPT ![t] = "idle"]
             /\ UNCHANGED own_connection
    /\ UNCHANGED <<lock, connection, connection_count>>
    /\ UNCHANGED <<query, extracted, poi_density, analysis, service_vars, api_vars, race_vars>>

\* The queries of the method: they return, or one raises and the method
\* returns its fallback, dropping the connection.
ChatQuery(t) ==
    /\ pc[t] = "chat_connected"
    /\ \E ok \in BOOLEAN :
        IF ok
        THEN /\ pc' = [pc EXCEPT ![t] = "chat_queried"]
             /\ UNCHANGED own_connection
        ELSE /\ pc' = [pc EXCEPT ![t] = "idle"]
             /\ own_connection' = [own_connection EXCEPT ![t] = FALSE]
    /\ UNCHANGED <<lock, connection, connection_count>>
    /\ UNCHANGED <<query, extracted, poi_density, analysis, service_vars, api_vars, race_vars>>

\* conn.close() and the return.
ChatClose(t) ==
    /\ pc[t] = "chat_queried"
    /\ pc' = [pc EXCEPT ![t] = "idle"]
    /\ own_connection' = [own_connection EXCEPT ![t] = FALSE]
    /\ UNCHANGED <<lock, connection, connection_count>>
    /\ UNCHANGED <<query, extracted, poi_density, analysis, service_vars, api_vars, race_vars>>

\* A call of execute_query or execute_single reaches `with self._lock`.
ManagerCall(t) ==
    /\ pc[t] = "idle"
    /\ pc' = [pc EXCEPT ![t] = "mgr_wait"]
    /\ UNCHANGED <<own_connection, lock, connection, connection_count>>
    /\ UNCHANGED <<query, extracted, poi_density, analysis, service_vars, api_vars, race_vars>>

\* get_connection(): the lock is taken, the count incremented and
\* _get_connection() called.  When duckdb.connect raises there, the
\* exception leaves the with statement before the try is entered: the lock
\* is released and the count stays incremented.
ManagerEnter(t) ==
    /\ pc[t] = "mgr_wait"
    /\ can_acquire(lock)
    /\ connection_count' = connection_count + 1
    /\ \E connect_ok \in IF connection_count + 1 < MaxCount THEN BOOLEAN ELSE {TRUE} :
        IF connection # "None" \/ connect_ok
        THEN /\ connection' = "open"
             /\ lock' = t
             /\ pc' = [pc EXCEPT ![t] = "mgr_in"]
        ELSE /\ connection' = connection
             /\ lock' = "free"
             /\ pc' = [pc EXCEPT ![t] = "idle"]
    /\ UNCHANGED own_connection
    /\ UNCHANGED <<query, extracted, poi_density, analysis, service_vars, api_vars, race_vars>>

\* The body of the with block: conn.execute(..).fetchall() returns, or it
\* raises and the except clause of get_connection() calls
\* close_connection().
ManagerExecute(t) ==
    /\ pc[t] = "mgr_in"
    /\ \E ok \in BOOLEAN :
        pc' = [pc EXCEPT ![t] = IF ok THEN "mgr_done" ELSE "mgr_failed"]
    /\ UNCHANGED <<own_connection, lock, connection, connection_count>>
    /\ UNCHANGED <<query, extracted, poi_density, analysis, service_vars, api_vars, race_vars>>

\* The finally clause and the end of `with self._lock`.
ManagerLeave(t) ==
    /\ pc[t] = "mgr_done"
    /\ connection_count' = connection_count - 1
    /\ lock' = "free"
    /\ pc' = [pc EXCEPT ![t] = "idle"]
    /\ UNCHANGED <<own_connection, connection>>
    /\ UNCHANGED <<query, extracted, poi_density, analysis, service_vars, api_vars, race_vars>>

\* A call of close_connection() from outside a get_connection() block.
CloseCall(t) ==
    /\ pc[t] = "idle"
    /\ pc' = [pc EXCEPT ![t] = "close_wait"]
    /\ UNCHANGED <<own_connection, lock, connection, connection_count>>
    /\ UNCHANGED <<query, extracted, poi_density, analysis, service_vars, api_vars, race_vars>>

\* close_connection(): `with self._lock`, reached from outside or from the
\* except clause of get_connection().  The lock is not reentrant: a thread
\* that holds it waits like any other.
CloseEnter(t) ==
    /\ pc[t] \in {"close_wait", "mgr_failed"}
    /\ can_acquire(lock)
    /\ lock' = t
    /\ pc' = [pc EXCEPT ![t] = IF pc[t] = "close_wait" THEN "close_in" ELSE "mgr_closing"]
    /\ UNCHANGED <<own_connection, connection, connection_count>>
    /\ UNCHANGED <<query, extracted, poi_density, analysis, service_vars, api_vars, race_vars>>

\* The body of close_connection() and the end of its with statement; in
\* the except clause the exception is then raised again.
CloseLeave(t) ==
    /\ pc[t] \in {"close_in", "mgr_closing"}
    /\ connection' = "None"
    /\ connection_count' = IF connection # "None" THEN 0 ELSE connection_count
    /\ lock' = "free"
    /\ pc' = [pc EXCEPT ![t] = IF pc[t] = "close_in" THEN "idle" ELSE "mgr_done"]
    /\ UNCHANGED own_connection
    /\ UNCHANGED <<query, extracted, poi_density, analysis, service_vars, api_vars, race_vars>>

InitThreads ==
    /\ query = <<>>
    /\ extracted = NotExtracted
    /\ poi_density = TableB
    /\ analysis = NotCalled
    /\ conversation_history = <<>>
    /\ db_cache = <<>>
    /\ ret = NotCalled
    /\ ThreadsIdle
    /\ ServiceReady
    /\ NoCalls

NextThreads ==
    \/ \E t \in Threads : HttpConnect(t)
    \/ \E t \in Threads : HttpQuery(t)
    \/ \E t \in Threads : HttpClose(t)
    \/ \E t \in Threads : ChatConnect(t)
    \/ \E t \in Threads : ChatRetry(t)
    \/ \E t \in Threads : ChatQuery(t)
    \/ \E t \in Threads : ChatClose(t)
    \/ \E t \in Threads : ManagerCall(t)
    \/ \E t \in Threads : ManagerEnter(t)
    \/ \E t \in Threads : ManagerExecute(t)
    \/ \E t \in Threads : ManagerLeave(t)
    \/ \E t \in Threads : CloseCall(t)
    \/ \E t \in Threads : CloseEnter(t)
    \/ \E t \in Threads : CloseLeave(t)

SpecThreads == InitThreads /\ [][NextThreads]_vars

\* The steps of one thread.
ThreadStep(t) ==
    \/ HttpConnect(t) \/ HttpQuery(t) \/ HttpClose(t)
    \/ ChatConnect(t) \/ ChatRetry(t) \/ ChatQuery(t) \/ ChatClose(t)
    \/ ManagerCall(t) \/ ManagerEnter(t) \/ ManagerExecute(t) \/ ManagerLeave(t)
    \/ CloseCall(t) \/ CloseEnter(t) \/ CloseLeave(t)

\* The interpreter keeps scheduling every thread: a thread that can take a
\* step, and stays able to, takes one.
SpecThreadsFair == SpecThreads /\ \A t \in Threads : WF_vars(ThreadStep(t))

(***************************************************************************)
(* The HTTP handlers of api.py.  A handler is a function of the request,   *)
(* of claude_service and of what the database and the language model do;   *)
(* it returns the status and the JSON body of the response.  A query       *)
(* parameter is given or absent; a JSON body is what request.get_json()    *)
(* makes of it: an exception, None, or a dict.                             *)
(***************************************************************************)
RECURSIVE lstrip(_)
lstrip(s) == IF s # <<>> /\ Head(s) = " " THEN lstrip(Tail(s)) ELSE s

reverse(s) == [i \in 1..Len(s) |-> s[Len(s) + 1 - i]]

\* str.strip()
strip(s) == reverse(lstrip(reverse(lstrip(s))))

\* str.title(): a letter that follows a letter is lower-cased, every other
\* letter is upper-cased.
title(s) ==
    [i \in 1..Len(s) |->
        IF i > 1 /\ s[i - 1] \in DOMAIN LowerOf \cup DOMAIN UpperOf
        THEN lower(<<s[i]>>)[1] ELSE upper(<<s[i]>>)[1]]

\* A JSON value of a body: a string, or a number (which has no strip()).
str_value(chars) == [type |-> "str", chars |-> chars]

int_value == [type |-> "int", chars |-> <<>>]

no_value == [type |-> "absent", chars |-> <<>>]

\* What request.get_json() gives: it raises (a body that is not JSON, or, in
\* Flask versions that reject it, a request without a JSON content type),
\* or it returns None (no JSON body, in the other versions), or the dict.
GetJsonRaises == [kind |-> "raises", keys |-> {}, query |-> no_value, location |-> no_value]

GetJsonNone == [kind |-> "None", keys |-> {}, query |-> no_value, location |-> no_value]

json_dict(keys, query_value, location_value) ==
    [kind |-> "dict", keys |-> keys, query |-> query_value, location |-> location_value]

\* `not data or 'query' not in data`
query_is_missing(data) == data.kind = "None" \/ data.keys = {} \/ "query" \notin data.keys

\* `if not claude_service` with the guard left out.
service_available_unchecked(cs) == TRUE

service_available(cs) == cs # "None"

\* The responses; `history` and `cache` are the state of the chat service
\* after the request.
error_response(status, error, history, cache) ==
    [status |-> status, success |-> FALSE, error |-> error, payload |-> <<>>,
     history |-> history, cache |-> cache]

ok_response(payload, history, cache) ==
    [status |-> 200, success |-> TRUE, error |-> "", payload |-> payload,
     history |-> history, cache |-> cache]

\* A method call on claude_service raises AttributeError when it is None;
\* the handlers catch it and answer 500.
none_has_no_attribute(history, cache) ==
    error_response(500, "'NoneType' object has no attribute", history, cache)

\* POST /api/chat, the part that runs with a service and a string query.
chat_generate(history, cache, table, q, run, extra, llm) ==
    LET r == generate_response(history, cache, table, q, run, extra, llm)
    IN  IF r.raised THEN error_response(500, r.text, r.history, r.cache)
        ELSE ok_response([query |-> q, response |-> r.text, map_directive |-> r.directive],
                         r.history, r.cache)

\* POST /api/chat
chat_endpoint(cs, data, history, cache, table, run, extra, llm) ==
    IF data.kind = "raises" THEN error_response(500, "get_json", history, cache)
    ELSE IF query_is_missing(data)
        THEN error_response(400, "Query is required", history, cache)
    ELSE IF data.query.type # "str"
        THEN error_response(500, "object has no attribute 'strip'", history, cache)
    ELSE IF ~service_available(cs)
        THEN error_response(503, "Claude service not available", history, cache)
    ELSE IF cs = "None" THEN none_has_no_attribute(history, cache)
    ELSE chat_generate(history, cache, table, strip(data.query.chars), run, extra, llm)

\* dict.get(key, default) on a JSON body
json_get(data, key, default) == IF key \in data.keys THEN data[key] ELSE default

\* POST /api/search: data.get on None raises; the search itself returns [].
search_endpoint(data, history, cache) ==
    IF data.kind = "raises" THEN error_response(500, "get_json", history, cache)
    ELSE IF data.kind = "None"
        THEN error_response(500, "'NoneType' object has no attribute 'get'", history, cache)
    ELSE ok_response([query    |-> json_get(data, "query", str_value(<<>>)),
                      location |-> json_get(data, "location", str_value(Bali)),
                      results  |-> <<>>],
                     history, cache)

\* GET /api/conversation
conversation_get(cs, history, cache) ==
    IF ~service_available(cs)
        THEN error_response(503, "Claude service not available", history, cache)
    ELSE IF cs = "None" THEN none_has_no_attribute(history, cache)
    ELSE ok_response([history |-> history], history, cache)

\* DELETE /api/conversation
conversation_delete(cs, history, cache) ==
    IF ~service_available(cs)
        THEN error_response(503, "Claude service not available", history, cache)
    ELSE IF cs = "None" THEN none_has_no_attribute(history, cache)
    ELSE ok_response([message |-> "Conversation history cleared"],
                     clear_conversation_history(history, cache).history,
                     clear_conversation_history(history, cache).cache)

\* GET /api/health: three counts over the whole table and the state of the
\* service; any exception of the connection or of a query gives 500.
health_check(cs, db_ok, table, history, cache) ==
    IF ~db_ok THEN error_response(500, "database error", history, cache)
    ELSE LET banks == SumOver([p \in Provinces |-> count_stats(table, p).total_banks], Provinces)
             atms  == SumOver([p \in Provinces |-> count_stats(table, p).total_atms], Provinces)
             poi   == SumOver([p \in Provinces |-> count_stats(table, p).total_poi], Provinces)
         IN  ok_response(
                [status |-> "healthy",
                 database |-> [poi_total |-> banks + atms + poi,
                               poi_financial |-> banks + atms,
                               poi_density |-> poi],
                 claude_service |-> [enabled |-> cs # "None",
                                     status  |-> IF cs # "None" THEN "ready" ELSE "disabled"]],
                history, cache)

\* request.args.get(name): a parameter is given with a value, or absent.
absent == [given |-> FALSE, value |-> ""]

absent_chars == [given |-> FALSE, value |-> <<>>]

given(value) == [given |-> TRUE, value |-> value]

\* request.args.get(name, default)
args_get(arg, default) == IF arg.given THEN arg.value ELSE default

\* `if value:` for a parameter: given and not the empty string (a parameter
\* the code inspects character by character is a sequence of characters).
truthy(arg) == arg.given /\ arg.value # ""

truthy_chars(arg) == arg.given /\ arg.value # <<>>

BankCategory == <<"B","a","n","k">>

AtmCategory == <<"A","T","M">>

DistrictOrder == <<"Badung", "Gianyar">>

\* The Bank and ATM rows of the table, in the order of ORDER BY category,
\* name: 'ATM' sorts before 'Bank', and the name of a row is its district
\* followed by its number.
RECURSIVE financial_rows(_, _, _)
financial_rows(r, province, i) ==
    IF i > 2 * Len(DistrictOrder) THEN <<>>
    ELSE LET d        == DistrictOrder[((i - 1) % Len(DistrictOrder)) + 1]
             category == IF i <= Len(DistrictOrder) THEN AtmCategory ELSE BankCategory
             n        == IF i <= Len(DistrictOrder) THEN r[d].atms ELSE r[d].banks
         IN  [k \in 1..n |-> [type |-> category, province |-> province, district |-> d,
                              name |-> <<d, k>>]]
             \o financial_rows(r, province, i + 1)

\* category_param without title(): the parameter is compared as given.
category_param_as_given(type_filter) ==
    IF truthy_chars(type_filter) /\ upper(type_filter.value) \in {upper(BankCategory), AtmCategory}
    THEN given(type_filter.value)
    ELSE absent

\* The type filter: `AND category = ?` with type_filter.title() when the
\* upper-cased parameter is BANK or ATM.
category_param(type_filter) ==
    IF truthy_chars(type_filter) /\ upper(type_filter.value) \in {upper(BankCategory), AtmCategory}
    THEN given(title(type_filter.value))
    ELSE absent

\* The query of /api/financial.  String comparison in the database is
\* case-sensitive.
financial_query(table, type_filter, province_filter, district_filter) ==
    LET category == category_param(type_filter)
        keep(row) == /\ truthy(district_filter) => row.district = district_filter.value
                     /\ category.given => row.type = category.value
    IN  SelectSeq(financial_rows(rows_of(table, province_filter), province_filter, 1), keep)

\* GET /api/financial
get_financial_data(type_filter, province, district_filter, db_ok, table, history, cache) ==
    IF ~db_ok THEN error_response(500, "database error", history, cache)
    ELSE LET result == financial_query(table, type_filter, args_get(province, "Bali"),
                                       district_filter)
         IN  ok_response([count |-> Len(result),
                          banks |-> SelectSeq(result, LAMBDA row : row.type = BankCategory),
                          atms  |-> SelectSeq(result, LAMBDA row : row.type # BankCategory)],
                         history, cache)

\* float(s) for the parameter values that occur: digits with at most one
\* point, read in tenths; anything else raises ValueError.
DigitValue ==
    ("0" :> 0) @@ ("1" :> 1) @@ ("2" :> 2) @@ ("3" :> 3) @@ ("4" :> 4) @@
    ("5" :> 5) @@ ("6" :> 6) @@ ("7" :> 7) @@ ("8" :> 8) @@ ("9" :> 9)

RECURSIVE digits_value(_)
digits_value(ds) ==
    IF ds = <<>> THEN 0
    ELSE 10 * digits_value(SubSeq(ds, 1, Len(ds) - 1)) + DigitValue[ds[Len(ds)]]

float(s) ==
    LET point_at == IF \E i \in 1..Len(s) : s[i] = "."
                    THEN CHOOSE i \in 1..Len(s) : s[i] = "." ELSE Len(s) + 1
        whole    == SubSeq(s, 1, point_at - 1)
        fraction == SubSeq(s, point_at + 1, Len(s))
    IN  IF /\ \A i \in 1..Len(whole) : whole[i] \in DOMAIN DigitValue
           /\ \A i \in 1..Len(fraction) : fraction[i] \in DOMAIN DigitValue
           /\ Len(whole) + Len(fraction) > 0
        THEN [ok |-> TRUE,
              tenths |-> 10 * digits_value(whole)
                         + (IF fraction = <<>> THEN 0 ELSE DigitValue[fraction[1]])]
        ELSE [ok |-> FALSE, tenths |-> 0]

\* float(request.args.get(name, default))
float_arg(arg, default_tenths) ==
    IF arg.given THEN float(arg.value) ELSE [ok |-> TRUE, tenths |-> default_tenths]

PoiCategory == "Cafe"

\* The rows of the first query of /api/poi, as a set.
poi_rows(table, province, district_filter, category_filter, min_intensity, max_intensity) ==
    LET r == rows_of(table, province)
    IN  UNION { { [district |-> d, name |-> <<d, k>>, intensity |-> r[d].poi[k],
                   category |-> PoiCategory] :
                    k \in { i \in 1..Len(r[d].poi) :
                              /\ r[d].poi[i] >= min_intensity
                              /\ r[d].poi[i] <= max_intensity
                              /\ truthy(district_filter) => d = district_filter.value
                              /\ truthy(category_filter) => PoiCategory = category_filter.value } } :
                d \in Districts }

\* The result lists the first query can return: ORDER BY intensity DESC,
\* category.  Nothing is queried when a float() has raised.
poi_query(table, province, district_filter, category_filter, min_intensity, max_intensity) ==
    IF ~float_arg(min_intensity, 0).ok \/ ~float_arg(max_intensity, 10).ok THEN { <<>> }
    ELSE LET rows == poi_rows(table, args_get(province, "Bali"), district_filter,
                              category_filter, float_arg(min_intensity, 0).tenths,
                              float_arg(max_intensity, 10).tenths)
         IN  orderings(rows, { p \in rows \X rows : p[1].intensity > p[2].intensity })

\* The result lists of the district summary: one row per district of the
\* province that has rows, ORDER BY avg_intensity DESC (round(.., 3) is
\* left out, the average is exact).
poi_district_summary(table, province) ==
    LET r    == rows_of(table, args_get(province, "Bali"))
        rows == { [district |-> d, count |-> Len(r[d].poi), avg_intensity |-> AVG(r[d].poi),
                   categories |-> 1] : d \in { e \in Districts : r[e].poi # <<>> } }
    IN  orderings(rows, { p \in rows \X rows : avg_before(p[1].avg_intensity, p[2].avg_intensity) })

\* GET /api/poi.  The summary by district and category has the rows of the
\* summary by district, every row being of the one category.
get_poi_data(min_intensity, max_intensity, db_ok, result, districts, summary, history, cache) ==
    IF ~db_ok THEN error_response(500, "database error", history, cache)
    ELSE IF ~float_arg(min_intensity, 0).ok \/ ~float_arg(max_intensity, 10).ok
        THEN error_response(500, "could not convert string to float", history, cache)
    ELSE ok_response([count |-> Len(result),
                      heatmap_data |-> [i \in 1..Len(result) |-> result[i].intensity],
                      detailed_data |-> result,
                      districts |-> districts,
                      district_summary |-> summary],
                     history, cache)

(***************************************************************************)
(* The server, one request at a time.  The API key is set or not when the  *)
(* module is loaded.                                                       *)
(***************************************************************************)
TableApi ==
    [p \in Provinces |->
        IF p = "Bali"
        THEN [d \in Districts |->
                IF d = "Badung" THEN [banks |-> 2, atms |-> 1, poi |-> <<7, 9>>]
                ELSE [banks |-> 1, atms |-> 2, poi |-> <<7>>]]
        ELSE [d \in Districts |->
                IF d = "Badung" THEN [banks |-> 1, atms |-> 0, poi |-> <<>>]
                ELSE NoRows]]

ChatBodies ==
    { GetJsonRaises, GetJsonNone,
      json_dict({}, no_value, no_value),
      json_dict({"location"}, no_value, str_value(Bali)),
      json_dict({"query"}, int_value, no_value) }
    \cup { json_dict({"query"}, str_value(q), no_value) : q \in { QueryHalo, <<" ">> \o QueryGdp \o <<" ">> } }

SearchBodies ==
    { GetJsonRaises, GetJsonNone,
      json_dict({}, no_value, no_value),
      json_dict({"query", "location"}, str_value(QueryGdp), str_value(Bali)) }

TypeParams ==
    { absent_chars }
    \cup { given(t) : t \in { <<"b","a","n","k">>, <<"B","A","N","K">>, <<"B","a","n","k">>,
                             <<"b","A","n","K">>, <<"a","t","m">>, <<"A","T","M">>,
                             <<"A","t","m">>, <<"a","l","l">>, <<>> } }

ProvinceParams == { absent, given("Indonesia") }

DistrictParams == { absent, given("Badung") }

FloatParams == { absent_chars, given(<<"0",".","8">>), given(<<"a","b","c">>) }

InitApi ==
    /\ query = <<>>
    /\ extracted = NotExtracted
    /\ poi_density = TableApi
    /\ analysis = NotCalled
    /\ conversation_history = <<>>
    /\ db_cache = <<>>
    /\ ret = NotCalled
    /\ ThreadsIdle
    /\ claude_service \in {"None", "ClaudeService"}
    /\ response = NoRequest
    /\ NoCalls

\* The server after it answered `r` to a request.
Answered(endpoint, request, r) ==
    /\ response' = [endpoint |-> endpoint, request |-> request, status |-> r.status,
                    success |-> r.success, error |-> r.error, payload |-> r.payload]
    /\ conversation_history' = r.history
    /\ db_cache' = r.cache
    /\ UNCHANGED <<query, extracted, poi_density, analysis, ret, claude_service,
                   thread_vars, race_vars>>

\* Whether POST /api/chat with this body gets as far as generate_response.
reaches_service(data) ==
    /\ data.kind = "dict"
    /\ ~query_is_missing(data)
    /\ data.query.type = "str"
    /\ claude_service # "None"

ChatEndpoint ==
    \E data \in ChatBodies :
    \E q \in (IF reaches_service(data) THEN {strip(data.query.chars)} ELSE {QueryHalo}) :
    \E llm \in (IF reaches_service(data) THEN LlmOutcomes
                ELSE {[kind |-> "ok", text |-> "generated text"]}) :
    \E run \in (IF reaches_service(data) /\ cache_key(extract_memo[q].location) \notin DOMAIN db_cache
                THEN DbRuns ELSE {OkRun}) :
        /\ (reaches_service(data) /\ llm.kind = "ok") => Len(conversation_history) < MaxHistory
        /\ Answered("POST /api/chat", data,
                    chat_endpoint(claude_service, data, conversation_history, db_cache,
                                  poi_density, run, NoExtra, llm))

SearchEndpoint ==
    \E data \in SearchBodies :
        Answered("POST /api/search", data, search_endpoint(data, conversation_history, db_cache))

ConversationGet ==
    Answered("GET /api/conversation", <<>>,
             conversation_get(claude_service, conversation_history, db_cache))

ConversationDelete ==
    Answered("DELETE /api/conversation", <<>>,
             conversation_delete(claude_service, conversation_history, db_cache))

HealthCheck ==
    \E db_ok \in BOOLEAN :
        Answered("GET /api/health", [db_ok |-> db_ok],
                 health_check(claude_service, db_ok, poi_density, conversation_history, db_cache))

GetFinancialData ==
    \E type \in TypeParams, province \in ProvinceParams, district \in DistrictParams,
       db_ok \in BOOLEAN :
        Answered("GET /api/financial",
                 [type |-> type, province |-> province, district |-> district, db_ok |-> db_ok],
                 get_financial_data(type, province, district, db_ok, poi_density,
                                    conversation_history, db_cache))

GetPoiData ==
    \E province \in {absent}, district \in DistrictParams, category \in {absent, given("Bank")},
       min_intensity \in FloatParams, max_intensity \in FloatParams, db_ok \in BOOLEAN :
    \E result \in poi_query(poi_density, province, district, category,
                            min_intensity, max_intensity),
       districts \in poi_district_summary(poi_density, province),
       summary \in poi_district_summary(poi_density, province) :
        Answered("GET /api/poi",
                 [province |-> province, district |-> district, category |-> category,
                  min_intensity |-> min_intensity, max_intensity |-> max_intensity,
                  db_ok |-> db_ok],
                 get_poi_data(min_intensity, max_intensity, db_ok, result, districts, summary,
                              conversation_history, db_cache))

NextApi ==
    \/ ChatEndpoint
    \/ SearchEndpoint
    \/ ConversationGet
    \/ ConversationDelete
    \/ HealthCheck
    \/ GetFinancialData
    \/ GetPoiData

SpecApi == InitApi /\ [][NextApi]_vars

(***************************************************************************)
(* Properties.                                                             *)
(***************************************************************************)
StatKeys == {"total_banks", "total_atms", "total_poi"}

counts(dict) == [k \in StatKeys |-> dict[k]]

DeepModes ==
    [whitespots |-> "whitespots", risk_assessment |-> "risk",
     bank_distribution |-> "financial", business_analysis |-> "business_analysis"]

\* C1: a generate_response whose call of the language model raises does not
\* raise itself; it returns the fallback text, which carries the counts of
\* the context computed before the call and the error text, together with
\* generate_map_directive(intent, location) for the intent and location of
\* the query; for the four deep intents the mode is whitespots, risk,
\* financial and business_analysis.
C1_FallbackKeepsDirective ==
    (ret.op = "generate_response" /\ ret.llm # "ok") =>
        /\ ~ret.raised
        /\ ret.fallback
        /\ ret.call.intent = extract_memo[ret.query].intent
        /\ ret.call.location = extract_memo[ret.query].location
        /\ ret.directive = generate_map_directive(ret.call.intent, ret.call.location)
        /\ ret.call.intent \in DOMAIN DeepModes
              => ret.directive.mode = DeepModes[ret.call.intent]
        /\ ret.text.location = ret.call.location
        /\ ret.text.total_banks = ret.call.db_context["total_banks"]
        /\ ret.text.total_atms = ret.call.db_context["total_atms"]
        /\ ret.text.total_poi = ret.call.db_context["total_poi"]
        /\ ret.text.error = ret.llm_text

C1_Witness ==
    /\ ret.op = "generate_response"
    /\ ret.llm = "no_content"
    /\ ret.call.intent = "business_analysis"
    /\ ret.fallback
    /\ ret.directive.mode = "business_analysis"
    /\ ret.text.total_banks > 0

\* C2: no exception leaves get_basic_stats, get_district_analysis or
\* get_business_opportunities: a run of the database that fails gives the
\* zero counts or the empty list, and generate_response goes on to call the
\* language model.
C2_QueriesNeverRaise ==
    /\ ret.op = "generate_response" =>
        /\ ~ret.raised
        /\ ret.llm_called
        /\ ~ret.stats_run_ok => counts(ret.call.db_context) = counts(zero_stats)
        /\ (~ret.own_run_ok /\ ret.call.intent \in {"whitespots", "risk_assessment"})
              => ret.call.db_context["district_analysis"] = <<>>
        /\ (~ret.own_run_ok /\ ret.call.intent = "business_analysis")
              => ret.call.db_context["business_opportunities"] = <<>>
    /\ ret.op = "get_basic_stats" =>
        /\ ~ret.raised
        /\ ~ret.run_ok => ret.stats = zero_stats

C2_Witness ==
    /\ ret.op = "generate_response"
    /\ ~ret.stats_run_ok
    /\ ~ret.own_run_ok
    /\ ret.call.intent = "whitespots"
    /\ ret.llm_called
    /\ ret.llm = "ok"

\* C3: when clear_conversation_history has returned, the history and the
\* cache are empty and the next get_basic_stats queries the database; a
\* cache entry always holds the counts of the table, never the zeros of a
\* failed query: a failed get_basic_stats leaves the cache as it was, and a
\* get_basic_stats whose run of the database does not fail returns the
\* counts of the table.
C3_ClearAndCache ==
    /\ [](ret.op = "clear_conversation_history"
            => conversation_history = <<>> /\ db_cache = <<>>)
    /\ [](\A k \in DOMAIN db_cache :
            counts(db_cache[k]) = counts(count_stats(poi_density, k[2])))
    /\ []((ret.op = "get_basic_stats" /\ ret.run_ok)
            => counts(ret.stats) = counts(count_stats(poi_density, ret.location)))
    /\ [][(ret'.op = "get_basic_stats" /\ ~ret'.run_ok) => db_cache' = db_cache]_vars
    /\ [][(ret.op = "clear_conversation_history" /\ ret'.op = "get_basic_stats")
            => ret'.queried]_vars

C3_Witness ==
    /\ ret.op = "get_basic_stats"
    /\ ret.queried
    /\ ~ret.run_ok
    /\ ret.stats = zero_stats
    /\ cache_key(ret.location) \notin DOMAIN db_cache
    /\ db_cache # <<>>

\* C4: a generate_response whose call of the language model succeeds
\* appends one entry, with its query and the text it returns, at the end of
\* the history; one whose call fails leaves the history as it was;
\* clear_conversation_history empties it; nothing else changes it.
C4_HistoryGrowsBySuccess ==
    [][ /\ (ret'.op = "generate_response" /\ ret'.llm = "ok")
            => conversation_history' =
                 Append(conversation_history, [query |-> ret'.query, response |-> ret'.text])
        /\ (ret'.op = "generate_response" /\ ret'.llm # "ok")
            => conversation_history' = conversation_history
        /\ ret'.op = "clear_conversation_history" => conversation_history' = <<>>
        /\ ret'.op \in {"get_basic_stats", "get_conversation_history"}
            => conversation_history' = conversation_history ]_vars

C4_Witness ==
    /\ ret.op = "generate_response"
    /\ ret.llm = "ok"
    /\ Len(conversation_history) = 2
    /\ conversation_history[2] = [query |-> ret.query, response |-> ret.text]
    /\ conversation_history[1].query # conversation_history[2].query

\* C5: a cache entry holds the three counts and nothing else, and the
\* context of a request has the counts and the keys of its own intent only.
OwnKeys(intent, location) ==
    IF intent \in {"whitespots", "risk_assessment"} THEN {"district_analysis"}
    ELSE IF intent = "business_analysis"
        THEN {"business_opportunities"}
             \cup (IF location = "Bali" THEN {"recommended_business_areas"} ELSE {})
    ELSE {}

C5_CacheHoldsOnlyCounts ==
    /\ \A k \in DOMAIN db_cache : DOMAIN db_cache[k] = StatKeys
    /\ ret.op = "generate_response"
          => DOMAIN ret.call.db_context
               = StatKeys \cup OwnKeys(ret.call.intent, ret.call.location)

\* C6: the intent is the first of greeting, whitespots, risk_assessment,
\* gdp_national, business_analysis, bank_distribution that has a keyword
\* occurring in the lower-cased query, and general_info when none has;
\* "Halo, apa kabar?" gives greeting.
ClaimedOrder ==
    <<"greeting", "whitespots", "risk_assessment", "gdp_national", "business_analysis",
      "bank_distribution">>

KeywordsOf(intent) ==
    (CHOOSE e \in { INTENT_KEYWORDS[i] : i \in 1..Len(INTENT_KEYWORDS) } :
        e.intent_type = intent).keywords

Matches(q, intent) ==
    \E k \in 1..Len(KeywordsOf(intent)) : contains(lower(q), KeywordsOf(intent)[k])

C6_FirstMatchingIntent ==
    extracted # NotExtracted =>
        /\ (\A i \in 1..Len(ClaimedOrder) : ~Matches(query, ClaimedOrder[i]))
              => extracted.intent = "general_info"
        /\ \A i \in 1..Len(ClaimedOrder) :
              (Matches(query, ClaimedOrder[i])
               /\ \A j \in 1..(i - 1) : ~Matches(query, ClaimedOrder[j]))
              => extracted.intent = ClaimedOrder[i]
        /\ query = QueryHalo => extracted.intent = "greeting"

C6_Witness ==
    /\ extracted.intent = "whitespots"
    /\ Matches(query, "business_analysis")

\* C7: the location is Bali when the lower-cased query contains "bali",
\* else Indonesia exactly for the intent gdp_national, else Bali; the
\* entities are "Bali" exactly when the query contains "bali", followed by
\* the upper-cased name of each bank token that occurs in the query.
HasBali(q) == contains(lower(q), bali)

BanksAfterBali(q, entities) == IF HasBali(q) THEN Tail(entities) ELSE entities

C7_LocationAndEntities ==
    extracted # NotExtracted =>
        /\ extracted.location =
              (IF HasBali(query) THEN "Bali"
               ELSE IF extracted.intent = "gdp_national" THEN "Indonesia" ELSE "Bali")
        /\ HasBali(query) <=> (\E i \in 1..Len(extracted.entities) : extracted.entities[i] = Bali)
        /\ HasBali(query) => extracted.entities[1] = Bali
        /\ \A b \in 1..Len(BANK_ENTITIES) :
              contains(lower(query), BANK_ENTITIES[b])
              <=> (\E i \in 1..Len(BanksAfterBali(query, extracted.entities)) :
                      BanksAfterBali(query, extracted.entities)[i] = upper(BANK_ENTITIES[b]))
        /\ Len(BanksAfterBali(query, extracted.entities))
              = Cardinality({ b \in 1..Len(BANK_ENTITIES) :
                                contains(lower(query), BANK_ENTITIES[b]) })
        /\ query = QueryWhitespots =>
              /\ extracted.intent = "whitespots"
              /\ extracted.location = "Bali"
              /\ extracted.entities[1] = Bali

C7_Witness ==
    /\ extracted.intent = "gdp_national"
    /\ extracted.location = "Bali"
    /\ extracted.entities = <<Bali, <<"B","N","I">> >>

\* C8: a district with rows that are neither Bank nor ATM is classified by
\* the first rule that holds of its average intensity and its number of Bank
\* and ATM rows: > 0.7 and < 2, > 0.5 and < 3, < 0.3 and > 2, < 0.2 and > 0,
\* else BALANCED; an average equal to a threshold does not satisfy the rule
\* of that threshold.
ClaimedClass(avg, total_financial) ==
    IF avg.num > 7 * avg.den /\ total_financial < 2 THEN "HIGH_PRIORITY_WHITESPACE"
    ELSE IF avg.num > 5 * avg.den /\ total_financial < 3 THEN "MEDIUM_PRIORITY_WHITESPACE"
    ELSE IF avg.num < 3 * avg.den /\ total_financial > 2 THEN "POTENTIAL_RISK_OVERSUPPLY"
    ELSE IF avg.num < 2 * avg.den /\ total_financial > 0 THEN "HIGH_RISK_LOW_DEMAND"
    ELSE "BALANCED"

tenths(n) == [num |-> n, den |-> 1]

HasPoiData(row) == rows_of(poi_density, analysis.location)[row.district].poi # <<>>

C8_ClassificationRules ==
    analysis.op = "get_district_analysis" =>
        \A i \in 1..Len(analysis.rows) :
            HasPoiData(analysis.rows[i]) =>
                /\ analysis.rows[i].area_classification =
                      ClaimedClass(analysis.rows[i].avg_poi_density,
                                   analysis.rows[i].total_financial)
                /\ analysis.rows[i].avg_poi_density = tenths(7)
                      => analysis.rows[i].area_classification # "HIGH_PRIORITY_WHITESPACE"
                /\ analysis.rows[i].avg_poi_density = tenths(5)
                      => analysis.rows[i].area_classification # "MEDIUM_PRIORITY_WHITESPACE"
                /\ analysis.rows[i].avg_poi_density = tenths(3)
                      => analysis.rows[i].area_classification # "POTENTIAL_RISK_OVERSUPPLY"
                /\ analysis.rows[i].avg_poi_density = tenths(2)
                      => analysis.rows[i].area_classification # "HIGH_RISK_LOW_DEMAND"

\* A row of the last analysis with POI data and this classification.
Produced(class) ==
    /\ analysis.op = "get_district_analysis"
    /\ \E i \in 1..Len(analysis.rows) :
          /\ HasPoiData(analysis.rows[i])
          /\ analysis.rows[i].area_classification = class

C8_Witness ==
    /\ analysis.op = "get_district_analysis"
    /\ \E i \in 1..Len(analysis.rows) :
          /\ HasPoiData(analysis.rows[i])
          /\ analysis.rows[i].avg_poi_density = tenths(7)
          /\ analysis.rows[i].total_financial = 1
          /\ analysis.rows[i].area_classification = "MEDIUM_PRIORITY_WHITESPACE"

C8_ProducedHigh == Produced("HIGH_PRIORITY_WHITESPACE")

C8_ProducedMedium == Produced("MEDIUM_PRIORITY_WHITESPACE")

C8_ProducedOversupply == Produced("POTENTIAL_RISK_OVERSUPPLY")

C8_ProducedLowDemand == Produced("HIGH_RISK_LOW_DEMAND")

C8_ProducedBalanced == Produced("BALANCED")

\* C9 as stated: (0.8, 1) gives HIGH_PRIORITY_WHITESPACE, (0.2, 5) gives
\* HIGH_RISK_LOW_DEMAND and (0.4, 1) gives BALANCED.
RowGives(avg, total_financial, class) ==
    analysis.op = "get_district_analysis" =>
        \A i \in 1..Len(analysis.rows) :
            (/\ HasPoiData(analysis.rows[i])
             /\ analysis.rows[i].avg_poi_density = avg
             /\ analysis.rows[i].total_financial = total_financial)
            => analysis.rows[i].area_classification = class

C9_ExamplesAsStated ==
    /\ RowGives(tenths(8), 1, "HIGH_PRIORITY_WHITESPACE")
    /\ RowGives(tenths(2), 5, "HIGH_RISK_LOW_DEMAND")
    /\ RowGives(tenths(4), 1, "BALANCED")

\* C9 as amended: (0.8, 1) gives HIGH_PRIORITY_WHITESPACE, (0.2, 5) gives
\* POTENTIAL_RISK_OVERSUPPLY and (0.4, 1) gives BALANCED.
C9_Examples ==
    /\ RowGives(tenths(8), 1, "HIGH_PRIORITY_WHITESPACE")
    /\ RowGives(tenths(2), 5, "POTENTIAL_RISK_OVERSUPPLY")
    /\ RowGives(tenths(4), 1, "BALANCED")

C9_Witness ==
    /\ analysis.op = "get_district_analysis"
    /\ \E i \in 1..Len(analysis.rows) :
          /\ HasPoiData(analysis.rows[i])
          /\ analysis.rows[i].avg_poi_density = tenths(2)
          /\ analysis.rows[i].total_financial = 5
          /\ analysis.rows[i].area_classification = "POTENTIAL_RISK_OVERSUPPLY"

\* C10 as stated: no two request threads hold an open database connection
\* or run a query at the same time.
HoldsConnection(t) ==
    own_connection[t] \/ pc[t] \in {"mgr_in", "mgr_done", "mgr_failed", "close_in", "mgr_closing"}

C10_AllAccessSerialized ==
    \A t1, t2 \in Threads : (HoldsConnection(t1) /\ HoldsConnection(t2)) => t1 = t2

\* C10 as amended: no two threads are inside a get_connection() or
\* close_connection() block of the DatabaseManager at the same time, and the
\* one that is holds the lock.
InManagerBlock(t) == pc[t] \in {"mgr_in", "mgr_done", "mgr_failed", "close_in", "mgr_closing"}

C10_ManagerSerialized ==
    /\ \A t1, t2 \in Threads : (InManagerBlock(t1) /\ InManagerBlock(t2)) => t1 = t2
    /\ \A t \in Threads : InManagerBlock(t) => lock = t

C10_Witness ==
    \E t1, t2, t3 \in Threads :
        /\ pc[t1] = "mgr_in"
        /\ pc[t2] = "mgr_wait"
        /\ lock = t1
        /\ own_connection[t3]

\* C11: without an API key, POST /api/chat with a query and GET and DELETE
\* /api/conversation answer 503 with success false, and no request changes
\* the state of the chat service; /api/health, /api/financial, /api/poi and
\* /api/search answer successfully when the database answers and the input
\* is valid, and /api/health reports the service as disabled.
HasStringQuery(data) ==
    data.kind = "dict" /\ "query" \in data.keys /\ data.query.type = "str"

ValidFloats(request) ==
    float_arg(request.min_intensity, 0).ok /\ float_arg(request.max_intensity, 10).ok

Succeeded == response.status = 200 /\ response.success

Unavailable == response.status = 503 /\ ~response.success

C11_AnswersWithoutKey ==
    claude_service = "None" =>
        /\ (response.endpoint = "POST /api/chat" /\ HasStringQuery(response.request))
                => Unavailable
        /\ response.endpoint \in {"GET /api/conversation", "DELETE /api/conversation"}
                => Unavailable
        /\ (response.endpoint = "GET /api/health" /\ response.request.db_ok)
                => /\ Succeeded
                   /\ response.payload.claude_service = [enabled |-> FALSE, status |-> "disabled"]
        /\ (response.endpoint = "GET /api/financial" /\ response.request.db_ok) => Succeeded
        /\ (response.endpoint = "GET /api/poi" /\ response.request.db_ok
                /\ ValidFloats(response.request)) => Succeeded
        /\ (response.endpoint = "POST /api/search" /\ response.request.kind = "dict")
                => Succeeded

C11_NoKeyEndpoints ==
    /\ []C11_AnswersWithoutKey
    /\ [][claude_service = "None"
            => UNCHANGED <<conversation_history, db_cache, claude_service>>]_vars

C11_Witness ==
    /\ claude_service = "None"
    /\ response.endpoint = "POST /api/chat"
    /\ HasStringQuery(response.request)
    /\ response.status = 503

\* C12 as stated: a request whose input is missing or invalid is answered
\* 400: POST /api/chat with no JSON body, without a query field or with a
\* query that is not a string, POST /api/search with no JSON body, GET
\* /api/poi with a min_intensity or max_intensity that is not a number.
NoJsonBody(data) == data.kind \in {"None", "raises"}

C12_InvalidInputGives400 ==
    /\ (response.endpoint = "POST /api/chat"
            /\ (NoJsonBody(response.request) \/ ~HasStringQuery(response.request)))
        => response.status = 400
    /\ (response.endpoint = "POST /api/search" /\ NoJsonBody(response.request))
        => response.status = 400
    /\ (response.endpoint = "GET /api/poi" /\ ~ValidFloats(response.request))
        => response.status = 400

\* C13: GET /api/financial with type "bank" in any letter case returns the
\* Bank records of the province (and of the district, when given) and no
\* other: atms is empty, banks holds every such record once, and count is
\* the length of banks.
RecordsOf(category, request) ==
    LET province == args_get(request.province, "Bali")
        r        == rows_of(poi_density, province)
    IN  { [type |-> category, province |-> province, district |-> d, name |-> <<d, k>>] :
            <<d, k>> \in { x \in Districts \X (1..(MaxBanks + MaxAtms)) :
                /\ x[2] <= (IF category = BankCategory THEN r[x[1]].banks ELSE r[x[1]].atms)
                /\ truthy(request.district) => x[1] = request.district.value } }

TypeIs(request, category) ==
    request.type.given /\ upper(request.type.value) = upper(category)

Holds(list, records) ==
    /\ { list[i] : i \in 1..Len(list) } = records
    /\ Len(list) = Cardinality(records)

FinancialAnswered ==
    response.endpoint = "GET /api/financial" /\ response.request.db_ok

C13_BankFilterAnyCase ==
    (FinancialAnswered /\ TypeIs(response.request, BankCategory))
        => /\ Succeeded
           /\ response.payload.atms = <<>>
           /\ Holds(response.payload.banks, RecordsOf(BankCategory, response.request))
           /\ response.payload.count = Len(response.payload.banks)

C13_Witness ==
    /\ FinancialAnswered
    /\ response.request.type = given(<<"b","A","n","K">>)
    /\ ~response.request.province.given
    /\ Len(response.payload.banks) > 1
    /\ RecordsOf(AtmCategory, response.request) # {}

\* C20 as stated: the type filter treats "bank" and "atm" alike, in any
\* letter case: the list of that type holds every record of the type and
\* the other list is empty; for any other or absent type both lists are
\* filled and count is the sum of their lengths.
C20_TypeFilterAlike ==
    FinancialAnswered =>
        /\ Succeeded
        /\ response.payload.count = Len(response.payload.banks) + Len(response.payload.atms)
        /\ Holds(response.payload.banks,
                 IF TypeIs(response.request, AtmCategory) THEN {}
                 ELSE RecordsOf(BankCategory, response.request))
        /\ Holds(response.payload.atms,
                 IF TypeIs(response.request, BankCategory) THEN {}
                 ELSE RecordsOf(AtmCategory, response.request))

\* C14: for every intent that is not a key of the directive table, and every
\* location, generate_map_directive returns the gdp_national entry (mode
\* gdp, no filters, zoom 5); the mode of every directive is one of gdp,
\* whitespots, risk, financial, business_analysis.
TableKeys ==
    {"gdp_national", "whitespots", "risk_assessment", "bank_distribution", "business_analysis"}

DirectiveCalled == ret.op = "generate_map_directive"

C14_UnknownIntentGivesGdp ==
    DirectiveCalled =>
        /\ ret.directive.mode \in {"gdp", "whitespots", "risk", "financial", "business_analysis"}
        /\ ret.intent \notin TableKeys =>
            /\ ret.directive.mode = "gdp"
            /\ ret.directive.filters = {}
            /\ ret.directive.zoom = 5
            /\ ret.directive = generate_map_directive("gdp_national", ret.location)

C14_Witness ==
    /\ DirectiveCalled
    /\ ret.from_query
    /\ ret.intent = "greeting"
    /\ ret.location = "Bali"
    /\ ret.directive.mode = "gdp"

\* C15 as stated: for every intent and location the center of the directive
\* is the location table's entry for the location, the Bali entry for a
\* location that is not in the table.
C15_CenterOfLocation ==
    DirectiveCalled =>
        ret.directive.center = (IF ret.location \in {"Bali", "Indonesia"}
                                THEN MAP_CENTERS[ret.location] ELSE MAP_CENTERS["Bali"])

\* C15 as amended: that is the center for the intents whitespots,
\* risk_assessment, bank_distribution and business_analysis; for
\* gdp_national and for every intent that is not a key of the table the
\* center is the Indonesia entry, whatever the location.
C15_CenterByIntent ==
    DirectiveCalled =>
        ret.directive.center =
            (IF ret.intent \in TableKeys \ {"gdp_national"}
             THEN (IF ret.location \in {"Bali", "Indonesia"}
                   THEN MAP_CENTERS[ret.location] ELSE MAP_CENTERS["Bali"])
             ELSE MAP_CENTERS["Indonesia"])

C15_Witness ==
    /\ DirectiveCalled
    /\ ret.intent = "bank_distribution"
    /\ ret.location = "Jawa"
    /\ ret.directive.center = MAP_CENTERS["Bali"]

\* C16: generate_map_directive("business_analysis", "Bali") returns zoom 11
\* and the Bali center on every call, whatever the entities of the query,
\* the earlier calls and the cache.
C16_BusinessBali ==
    (DirectiveCalled /\ ret.intent = "business_analysis" /\ ret.location = "Bali")
        => /\ ret.directive.zoom = 11
           /\ ret.directive.center = <<-86705, 1152126>>

C16_Witness ==
    /\ DirectiveCalled
    /\ ret.from_query
    /\ ret.intent = "business_analysis"
    /\ ret.location = "Bali"
    /\ extracted.entities # <<>>
    /\ db_cache # <<>>
    /\ ret.directive.zoom = 11

\* C17 as stated: when the body of a get_connection block raises, the call
\* terminates with the mutex released; no thread blocks forever.
C17_FailedCallTerminates ==
    \A t \in Threads : (pc[t] = "mgr_failed") ~> (pc[t] = "idle" /\ lock # t)

\* The calls of generate_response that appended their entry and returned.
Appended == { t \in Threads : frame[t].op = "generate_response" /\ frame[t].state = "appended" }

InList(entry, list) == \E i \in 1..Len(list) : list[i] = entry

\* C18: a generate_response that succeeded and finished after the last
\* clear has its entry in the history exactly when no clear fell between its
\* read of the history attribute and its append; so a clear in that window
\* loses the entry of a call that finished after it.
C18_EntryLostByRace ==
    \A t \in Appended :
        /\ InList(frame[t].entry, lists[frame[t].ref])
        /\ frame[t].finished_at > cleared_at =>
              (InList(frame[t].entry, lists[history_id]) <=> frame[t].loaded_at > cleared_at)

\* Both calls have completed, the generate_response after the clear, and
\* get_conversation_history returns a list without its entry.
C18_Witness ==
    \E g \in Appended, c \in Threads :
        /\ frame[c].op = "clear_conversation_history"
        /\ pc[g] = "idle" /\ pc[c] = "idle"
        /\ frame[g].loaded_at < frame[c].finished_at
        /\ frame[c].finished_at < frame[g].finished_at
        /\ ret.op = "get_conversation_history"
        /\ ~InList(frame[g].entry, ret.history)
        /\ ret.history = lists[history_id]

\* C19 as stated: a district with Bank or ATM rows and no other row comes
\* after every district that has other rows, its reported avg_poi_density is
\* 0, and the classification of every returned row is the one the threshold
\* rules give for the avg_poi_density and total_financial reported in it.
C19_ClassOfReportedRow ==
    analysis.op = "get_district_analysis" =>
        \A i \in 1..Len(analysis.rows) :
            /\ ~HasPoiData(analysis.rows[i]) =>
                  /\ analysis.rows[i].avg_poi_density = tenths(0)
                  /\ \A j \in 1..Len(analysis.rows) : HasPoiData(analysis.rows[j]) => j < i
            /\ analysis.rows[i].area_classification =
                  ClaimedClass(analysis.rows[i].avg_poi_density,
                               analysis.rows[i].total_financial)

====
